---- MODULE Spec2Model ----
(***************************************************************************)
(* Connect-Four engine: board model, win/draw detection, position          *)
(* evaluator, minimax / alpha-beta search and the turn loop.               *)
(*                                                                         *)
(* Two engines of the repository are modelled:                             *)
(*   "final" - the engine with search (Player/Game with minimax,           *)
(*             minimaxWithAlphaBetaPruning, evaluateBoard);                *)
(*   "basic" - game.ts, the first engine (human and random players only). *)
(***************************************************************************)
EXTENDS Integers, Sequences, FiniteSets, TLC

VARIABLES
    variant,   \* which engine runs: "final" or "basic" (game.ts)
    board,     \* Game.board, the live board: board[row][col], row 0 is the top
    turn,      \* Game.turn: "P1" or "P2"
    pc,        \* position of Game.play: "loop" (at the while test), "prompt"
               \* (in player.move, waiting for the line of a human), "typed"
               \* (the line is there, getColumnForMove about to resume), "move" (in
               \* player.move, the column returned, awaited by Player.move),
               \* "placed" (placePiece done, play about to resume) or "done"
    typedLine, \* the line the prompt was resolved with, which getColumnForMove
               \* awaits (`const col = await this.prompt()`; Null: none)
    moveCol,   \* the column Player.move awaits from getColumnForMove (Null: none)
    result,    \* the local `result` of Game.play (Null until the loop ends)
    modes,     \* modes[t]: how player t chooses a column
    last       \* record of the last operation carried out (what, inputs, outputs)

vars == <<variant, board, turn, pc, typedLine, moveCol, result, modes, last>>

-----------------------------------------------------------------------------
(* Program constants and values *)

NUM_ROWS == 6
NUM_COLS == 7
MAX_DEPTH == 2

Red == "Red"
Yellow == "Yellow"
\* the JavaScript value null (an empty cell, no row, no result)
Null == "null"
\* the JavaScript value undefined (an array read outside the column range)
Undefined == "undefined"
Pieces == {Red, Yellow}

\* getLowestEmptyRowForColumn returns number | null; null is written NoRow
NoRow == -1
\* parseInt of a non-numeric line is NaN, and NaN - 1 is NaN.  NaN is written
\* as the least 32-bit integer: parseInt gives it for no line (the numbers a
\* line can spell here lie in -2147483647 .. 2147483647), and parseInt(col) - 1
\* for the line -2147483647 only
NaN == -2147483647 - 1

Rows == 0 .. (NUM_ROWS - 1)
Cols == 0 .. (NUM_COLS - 1)

\* Number.MIN_SAFE_INTEGER and Number.MAX_SAFE_INTEGER, the initial values of a
\* node's running best.  The code's -(2^53 - 1) and 2^53 - 1 lie outside the
\* integers TLC computes with; the model uses the least and greatest values that
\* fit.  Every score evaluateBoard can return lies strictly between them (at most
\* 4 * NUM_ROWS * NUM_COLS windows of 1000000 each, plus the small terms), which
\* is all the code relies on.
MIN_SAFE_INTEGER == -2147483647
MAX_SAFE_INTEGER == 2147483647

P1Wins == "P1 Wins!"
P2Wins == "P2 Wins!"
Draw == "Draw"

\* main(): player1 holds Red, player2 holds Yellow
player1Piece == Red
player2Piece == Yellow

\* The board of a new Game: every cell null
EmptyBoard == [row \in Rows |-> [col \in Cols |-> Null]]

\* board[row][col] as JavaScript reads it: a column outside the array is undefined
cellAt(b, row, col) == IF col \in Cols THEN b[row][col] ELSE Undefined

\* JavaScript truthiness of a cell read (a piece is a non-empty string)
truthyCell(c) == c \in Pieces

-----------------------------------------------------------------------------
(* Board model of the final engine *)

RECURSIVE lowestEmptyRowFrom(_, _, _)
\* a variant that returns the row of the supporting piece (row + 1) for a row
\* above the bottom
RECURSIVE lowestEmptyRowFrom_support(_, _, _)
lowestEmptyRowFrom_support(b, col, row) ==
    IF row >= NUM_ROWS THEN NoRow
    ELSE IF (row = NUM_ROWS - 1 \/ truthyCell(cellAt(b, row + 1, col)))
            /\ cellAt(b, row, col) = Null
         THEN (IF row = NUM_ROWS - 1 THEN row ELSE row + 1)
         ELSE lowestEmptyRowFrom_support(b, col, row + 1)

lowestEmptyRowFrom(b, col, row) ==
    IF row >= NUM_ROWS THEN NoRow
    ELSE LET isBottomRow == (row = NUM_ROWS - 1)
         IN IF (isBottomRow \/ truthyCell(cellAt(b, row + 1, col)))
                /\ cellAt(b, row, col) = Null
            THEN row
            ELSE lowestEmptyRowFrom(b, col, row + 1)

\* a variant that returns the first empty row from the top, supported or not
getLowestEmptyRowForColumn_firstEmpty(b, col) ==
    IF \E row \in Rows : cellAt(b, row, col) = Null
    THEN CHOOSE row \in Rows :
            /\ cellAt(b, row, col) = Null
            /\ \A above \in Rows : above < row => cellAt(b, above, col) # Null
    ELSE NoRow

getLowestEmptyRowForColumn(b, col) == lowestEmptyRowFrom(b, col, 0)

canPlayAtColumn(b, col) == getLowestEmptyRowForColumn(b, col) # NoRow

\* a variant that writes one row too high (row - 1 for row)
placePieceAtRow_rowAbove(b, row, col, piece) ==
    IF row # NoRow THEN [b EXCEPT ![IF row > 0 THEN row - 1 ELSE 0][col] = piece] ELSE b

\* `if (row !== null) board[row][col] = piece`
placePieceAtRow(b, row, col, piece) ==
    IF row # NoRow THEN [b EXCEPT ![row][col] = piece] ELSE b

\* a variant that writes the top cell of a full column instead of doing nothing
placePiece_overwritesFull(b, col, piece) ==
    IF col \in Cols /\ getLowestEmptyRowForColumn(b, col) = NoRow
    THEN [b EXCEPT ![0][col] = piece]
    ELSE placePieceAtRow(b, getLowestEmptyRowForColumn(b, col), col, piece)

placePiece(b, col, piece) ==
    placePieceAtRow(b, getLowestEmptyRowForColumn(b, col), col, piece)

-----------------------------------------------------------------------------
(* Board model of the basic engine (game.ts): placePiece has its own loop *)

RECURSIVE placePieceBasicFrom(_, _, _, _)
placePieceBasicFrom(b, col, piece, row) ==
    IF row >= NUM_ROWS THEN b
    ELSE LET isBottomRow == (row = NUM_ROWS - 1)
         IN IF (isBottomRow \/ truthyCell(cellAt(b, row + 1, col)))
                /\ cellAt(b, row, col) = Null
            THEN [b EXCEPT ![row][col] = piece]
            ELSE placePieceBasicFrom(b, col, piece, row + 1)

placePieceBasic(b, col, piece) == placePieceBasicFrom(b, col, piece, 0)

\* The result strings of game.ts
P1Win == "P1_Win"
P2Win == "P2_Win"

\* The loops of hasWonHorizontally, hasWonDiagonallyUp, hasWonDiagonallyDown and
\* hasWonVertically of game.ts: from (row, col) in steps of (dRow, dCol), at
\* most 4 turns and only on the board, numConsecutiveMatchingPieces counts the
\* matching cells up to the first cell that does not match (break).  i is the
\* number of turns taken.
\* a variant that runs on past the fourth cell
RECURSIVE numConsecutiveMatchingPieces_noCap(_, _, _, _, _, _, _)
numConsecutiveMatchingPieces_noCap(b, piece, row, col, dRow, dCol, i) ==
    IF row >= 0 /\ row < NUM_ROWS /\ col < NUM_COLS /\ b[row][col] = piece
    THEN 1 + numConsecutiveMatchingPieces_noCap(b, piece, row + dRow, col + dCol, dRow, dCol, i + 1)
    ELSE 0

RECURSIVE numConsecutiveMatchingPieces(_, _, _, _, _, _, _)
numConsecutiveMatchingPieces(b, piece, row, col, dRow, dCol, i) ==
    IF i < 4 /\ row >= 0 /\ row < NUM_ROWS /\ col < NUM_COLS /\ b[row][col] = piece
    THEN 1 + numConsecutiveMatchingPieces(b, piece, row + dRow, col + dCol, dRow, dCol, i + 1)
    ELSE 0

hasWonHorizontally(b, piece, startingRow, startingCol) ==
    numConsecutiveMatchingPieces(b, piece, startingRow, startingCol, 0, 1, 0) = 4

hasWonDiagonallyUp(b, piece, startingRow, startingCol) ==
    numConsecutiveMatchingPieces(b, piece, startingRow, startingCol, -1, 1, 0) = 4

hasWonDiagonallyDown(b, piece, startingRow, startingCol) ==
    numConsecutiveMatchingPieces(b, piece, startingRow, startingCol, 1, 1, 0) = 4

hasWonVertically(b, piece, startingRow, startingCol) ==
    numConsecutiveMatchingPieces(b, piece, startingRow, startingCol, 1, 0, 0) = 4

hasPlayerWonAtCellBasic(b, piece, row, col) ==
    \/ hasWonHorizontally(b, piece, row, col)
    \/ hasWonDiagonallyUp(b, piece, row, col)
    \/ hasWonDiagonallyDown(b, piece, row, col)
    \/ hasWonVertically(b, piece, row, col)

\* getResult of game.ts, from the cell (row, col) of its row-major scan
getResultBasicFrom(b, startingRow, startingCol, startingFlag) ==
    LET scan[row \in 0 .. NUM_ROWS, col \in 0 .. NUM_COLS, hasSeenEmptyCell \in BOOLEAN] ==
            IF row >= NUM_ROWS
            THEN IF ~hasSeenEmptyCell THEN Draw ELSE Null
            ELSE IF col >= NUM_COLS
            THEN scan[row + 1, 0, hasSeenEmptyCell]
            ELSE IF b[row][col] = Null
            THEN scan[row, col + 1, TRUE]
            ELSE IF hasPlayerWonAtCellBasic(b, player1Piece, row, col) THEN P1Win
            ELSE IF hasPlayerWonAtCellBasic(b, player2Piece, row, col) THEN P2Win
            ELSE scan[row, col + 1, hasSeenEmptyCell]
    IN scan[startingRow, startingCol, startingFlag]

getResultBasic(b) == getResultBasicFrom(b, 0, 0, FALSE)

-----------------------------------------------------------------------------
(* Windows: the cells of the edge-clipped 4-cell window starting at a cell *)

Min(a, b) == IF a < b THEN a ELSE b
Max(a, b) == IF a > b THEN a ELSE b

\* One turn of a window loop: the loop pushes board[row][col] while the cell
\* lies on the board, and countCellsInArray then counts the pushed cells equal
\* to `cell`; a turn counts 1 when its cell is on the board and matches.  The
\* loops run at most 4 turns (col < startingCol + 4), written out below.
windowCell(b, cell, row, col) ==
    IF row >= 0 /\ row < NUM_ROWS /\ col < NUM_COLS /\ b[row][col] = cell THEN 1 ELSE 0

numMatchingCellsHorizontally(b, cell, startingRow, startingCol) ==
    windowCell(b, cell, startingRow, startingCol)
    + windowCell(b, cell, startingRow, startingCol + 1)
    + windowCell(b, cell, startingRow, startingCol + 2)
    + windowCell(b, cell, startingRow, startingCol + 3)

numMatchingCellsDiagonallyUp(b, cell, startingRow, startingCol) ==
    windowCell(b, cell, startingRow, startingCol)
    + windowCell(b, cell, startingRow - 1, startingCol + 1)
    + windowCell(b, cell, startingRow - 2, startingCol + 2)
    + windowCell(b, cell, startingRow - 3, startingCol + 3)

numMatchingCellsDiagonallyDown(b, cell, startingRow, startingCol) ==
    windowCell(b, cell, startingRow, startingCol)
    + windowCell(b, cell, startingRow + 1, startingCol + 1)
    + windowCell(b, cell, startingRow + 2, startingCol + 2)
    + windowCell(b, cell, startingRow + 3, startingCol + 3)

numMatchingCellsVertically(b, cell, startingRow, startingCol) ==
    windowCell(b, cell, startingRow, startingCol)
    + windowCell(b, cell, startingRow + 1, startingCol)
    + windowCell(b, cell, startingRow + 2, startingCol)
    + windowCell(b, cell, startingRow + 3, startingCol)

\* a variant that leaves out the vertical test
hasPlayerWonAtCell_noVertical(b, piece, row, col) ==
    4 \in { numMatchingCellsHorizontally(b, piece, row, col),
            numMatchingCellsDiagonallyUp(b, piece, row, col),
            numMatchingCellsDiagonallyDown(b, piece, row, col) }

hasPlayerWonAtCell(b, piece, row, col) ==
    4 \in { numMatchingCellsHorizontally(b, piece, row, col),
            numMatchingCellsDiagonallyUp(b, piece, row, col),
            numMatchingCellsDiagonallyDown(b, piece, row, col),
            numMatchingCellsVertically(b, piece, row, col) }

\* getResult scans the cells in row-major order (rows outer, columns inner);
\* the scan is written over the cell (row, col) and the flag hasSeenEmptyCell
\* (scan[row, col, hasSeenEmptyCell] is the value the loops return from there)
getResultFrom(b, startingRow, startingCol, startingFlag) ==
    LET scan[row \in 0 .. NUM_ROWS, col \in 0 .. NUM_COLS, hasSeenEmptyCell \in BOOLEAN] ==
            IF row >= NUM_ROWS
            THEN IF ~hasSeenEmptyCell THEN Draw ELSE Null
            ELSE IF col >= NUM_COLS
            THEN scan[row + 1, 0, hasSeenEmptyCell]
            ELSE IF b[row][col] = Null
            THEN scan[row, col + 1, TRUE]
            ELSE IF hasPlayerWonAtCell(b, player1Piece, row, col) THEN P1Wins
            ELSE IF hasPlayerWonAtCell(b, player2Piece, row, col) THEN P2Wins
            ELSE scan[row, col + 1, hasSeenEmptyCell]
    IN scan[startingRow, startingCol, startingFlag]

\* a variant that scans the rows from the bottom row up
getResult_bottomUp(b) ==
    LET scan[row \in -1 .. NUM_ROWS - 1, col \in 0 .. NUM_COLS, hasSeenEmptyCell \in BOOLEAN] ==
            IF row < 0
            THEN IF ~hasSeenEmptyCell THEN Draw ELSE Null
            ELSE IF col >= NUM_COLS
            THEN scan[row - 1, 0, hasSeenEmptyCell]
            ELSE IF b[row][col] = Null
            THEN scan[row, col + 1, TRUE]
            ELSE IF hasPlayerWonAtCell(b, player1Piece, row, col) THEN P1Wins
            ELSE IF hasPlayerWonAtCell(b, player2Piece, row, col) THEN P2Wins
            ELSE scan[row, col + 1, hasSeenEmptyCell]
    IN scan[NUM_ROWS - 1, 0, FALSE]

\* a variant whose flag hasSeenEmptyCell starts true
getResult_flagStartsTrue(b) == getResultFrom(b, 0, 0, TRUE)

getResult(b) == getResultFrom(b, 0, 0, FALSE)

-----------------------------------------------------------------------------
(* The earlier search engines.  Their board operations (placePiece,        *)
(* getLowestEmptyRowForColumn, getChildBoardsForBoard) are those of the     *)
(* final engine.  The second one has the final engine's getResult.  In the  *)
(* first one getResult and the four hasWon* take a parameter `board` and    *)
(* read this.board, the live board of the game, in every place.             *)

\* the engines whose getResult takes a board argument
BoardArgVariants == {"search1", "search2", "final"}

\* hasPlayerWonAtCell(board, player, row, col) of the first search engine, b
\* being its parameter board: the run tests of game.ts, which read this.board
hasPlayerWonAtCellFirst(thisBoard, b, piece, row, col) ==
    \/ numConsecutiveMatchingPieces(thisBoard, piece, row, col, 0, 1, 0) = 4
    \/ numConsecutiveMatchingPieces(thisBoard, piece, row, col, -1, 1, 0) = 4
    \/ numConsecutiveMatchingPieces(thisBoard, piece, row, col, 1, 1, 0) = 4
    \/ numConsecutiveMatchingPieces(thisBoard, piece, row, col, 1, 0, 0) = 4

\* getResult(board) of the first search engine, b being its parameter board,
\* in a game whose live board is thisBoard
getResultFirst(thisBoard, b) ==
    LET scan[row \in 0 .. NUM_ROWS, col \in 0 .. NUM_COLS, hasSeenEmptyCell \in BOOLEAN] ==
            IF row >= NUM_ROWS
            THEN IF ~hasSeenEmptyCell THEN Draw ELSE Null
            ELSE IF col >= NUM_COLS
            THEN scan[row + 1, 0, hasSeenEmptyCell]
            ELSE IF thisBoard[row][col] = Null
            THEN scan[row, col + 1, TRUE]
            ELSE IF hasPlayerWonAtCellFirst(thisBoard, b, player1Piece, row, col)
            THEN P1Wins
            ELSE IF hasPlayerWonAtCellFirst(thisBoard, b, player2Piece, row, col)
            THEN P2Wins
            ELSE scan[row, col + 1, hasSeenEmptyCell]
    IN scan[0, 0, FALSE]

\* this.getResult(b) of engine v in a game whose live board is thisBoard
getResultIn(v, thisBoard, b) ==
    IF v = "search1" THEN getResultFirst(thisBoard, b) ELSE getResult(b)

-----------------------------------------------------------------------------
(* Position evaluator *)

\* the evaluateMetrics of an earlier engine: the opponent's 3-and-1 window
\* costs 4, its other windows nothing
evaluateMetrics_earlier(numMaximizingPieces, numMinimizingPieces, numEmpty) ==
    (IF numMaximizingPieces = 4 THEN 10000
     ELSE IF numMaximizingPieces = 3 /\ numEmpty = 1 THEN 5
     ELSE IF numMaximizingPieces = 2 /\ numEmpty = 2 THEN 2
     ELSE 0)
    -
    (IF numMinimizingPieces = 3 /\ numEmpty = 1 THEN 4 ELSE 0)

\* a variant that scores the windows of the maximizing piece only
evaluateMetrics_ownOnly(numMaximizingPieces, numMinimizingPieces, numEmpty) ==
    IF numMaximizingPieces = 4 THEN 1000000
    ELSE IF numMaximizingPieces = 3 /\ numEmpty = 1 THEN 5
    ELSE IF numMaximizingPieces = 2 /\ numEmpty = 2 THEN 2
    ELSE 0

\* a variant that scores three or two pieces without counting the empty cells
evaluateMetrics_noEmptyCount(numMaximizingPieces, numMinimizingPieces, numEmpty) ==
    (IF numMaximizingPieces = 4 THEN 1000000
     ELSE IF numMaximizingPieces = 3 THEN 5
     ELSE IF numMaximizingPieces = 2 THEN 2
     ELSE 0)
    -
    (IF numMinimizingPieces = 4 THEN 1000000
     ELSE IF numMinimizingPieces = 3 THEN 5
     ELSE IF numMinimizingPieces = 2 THEN 2
     ELSE 0)

evaluateMetrics(numMaximizingPieces, numMinimizingPieces, numEmpty) ==
    (IF numMaximizingPieces = 4 THEN 1000000
     ELSE IF numMaximizingPieces = 3 /\ numEmpty = 1 THEN 5
     ELSE IF numMaximizingPieces = 2 /\ numEmpty = 2 THEN 2
     ELSE 0)
    -
    (IF numMinimizingPieces = 4 THEN 1000000
     ELSE IF numMinimizingPieces = 3 /\ numEmpty = 1 THEN 5
     ELSE IF numMinimizingPieces = 2 /\ numEmpty = 2 THEN 2
     ELSE 0)

evaluateHorizontally(b, maxPiece, minPiece, row, col) ==
    evaluateMetrics(numMatchingCellsHorizontally(b, maxPiece, row, col),
                    numMatchingCellsHorizontally(b, minPiece, row, col),
                    numMatchingCellsHorizontally(b, Null, row, col))

evaluateDiagonallyUp(b, maxPiece, minPiece, row, col) ==
    evaluateMetrics(numMatchingCellsDiagonallyUp(b, maxPiece, row, col),
                    numMatchingCellsDiagonallyUp(b, minPiece, row, col),
                    numMatchingCellsDiagonallyUp(b, Null, row, col))

\* a variant that hands the two piece counts over in the other order
evaluateDiagonallyDown_exchanged(b, maxPiece, minPiece, row, col) ==
    evaluateMetrics(numMatchingCellsDiagonallyDown(b, minPiece, row, col),
                    numMatchingCellsDiagonallyDown(b, maxPiece, row, col),
                    numMatchingCellsDiagonallyDown(b, Null, row, col))

evaluateDiagonallyDown(b, maxPiece, minPiece, row, col) ==
    evaluateMetrics(numMatchingCellsDiagonallyDown(b, maxPiece, row, col),
                    numMatchingCellsDiagonallyDown(b, minPiece, row, col),
                    numMatchingCellsDiagonallyDown(b, Null, row, col))

evaluateVertically(b, maxPiece, minPiece, row, col) ==
    evaluateMetrics(numMatchingCellsVertically(b, maxPiece, row, col),
                    numMatchingCellsVertically(b, minPiece, row, col),
                    numMatchingCellsVertically(b, Null, row, col))

countCellsInArray(array, targetCell) ==
    Cardinality({i \in DOMAIN array : array[i] = targetCell})

\* a variant that leaves the two diagonal directions out
RECURSIVE evaluateRowFrom_noDiagonals(_, _, _, _, _)
evaluateRowFrom_noDiagonals(b, maxPiece, minPiece, row, col) ==
    IF col >= NUM_COLS THEN 0
    ELSE evaluateHorizontally(b, maxPiece, minPiece, row, col)
         + evaluateVertically(b, maxPiece, minPiece, row, col)
         + evaluateRowFrom_noDiagonals(b, maxPiece, minPiece, row, col + 1)

\* the inner loop of evaluateBoard: the columns col .. NUM_COLS - 1 of a row
RECURSIVE evaluateRowFrom(_, _, _, _, _)
evaluateRowFrom(b, maxPiece, minPiece, row, col) ==
    IF col >= NUM_COLS THEN 0
    ELSE evaluateHorizontally(b, maxPiece, minPiece, row, col)
         + evaluateDiagonallyUp(b, maxPiece, minPiece, row, col)
         + evaluateDiagonallyDown(b, maxPiece, minPiece, row, col)
         + evaluateVertically(b, maxPiece, minPiece, row, col)
         + evaluateRowFrom(b, maxPiece, minPiece, row, col + 1)

\* the outer loop of evaluateBoard: the rows row .. NUM_ROWS - 1
RECURSIVE evaluateRowsFrom(_, _, _, _)
evaluateRowsFrom(b, maxPiece, minPiece, row) ==
    IF row >= NUM_ROWS THEN 0
    ELSE evaluateRowFrom(b, maxPiece, minPiece, row, 0)
         + evaluateRowsFrom(b, maxPiece, minPiece, row + 1)

\* a variant that also takes 3 off for every centre piece of the other side
evaluateBoard_centerOpposed(b, maxPiece, minPiece) ==
    LET centerColumn == [row \in Rows |-> b[row][NUM_COLS \div 2]]
    IN 3 * countCellsInArray(centerColumn, maxPiece)
       - 3 * countCellsInArray(centerColumn, minPiece)
       + evaluateRowsFrom(b, maxPiece, minPiece, 0)

evaluateBoard(b, maxPiece, minPiece) ==
    LET centerColumn == [row \in Rows |-> b[row][NUM_COLS \div 2]]
        numCenterPieces == countCellsInArray(centerColumn, maxPiece)
    IN 3 * numCenterPieces + evaluateRowsFrom(b, maxPiece, minPiece, 0)

-----------------------------------------------------------------------------
(* Search engine.                                                          *)
(* Boards are JavaScript arrays, passed by reference and written in place. *)
(* The search is modelled over a store of boards: a board argument is a    *)
(* reference (an index of the store), _.cloneDeep allocates a new board,   *)
(* and placePiece writes through the reference it is given.  Every search  *)
(* operator returns the store it leaves behind.                            *)

\* a variant that hands back the board itself instead of a copy
cloneDeep_sameBoard(heap, ref) == [heap |-> heap, ref |-> ref]

\* _.cloneDeep(board): a new array holding copies of the rows
cloneDeep(heap, ref) == [heap |-> Append(heap, heap[ref]), ref |-> Len(heap) + 1]

\* this.placePiece(boardCopy, col, piece): writes board[row][col] in place
placePieceInPlace(heap, ref, col, piece) ==
    [heap EXCEPT ![ref] = placePiece(heap[ref], col, piece)]

\* the callback of the _.map for a playable column: boardCopy is the clone,
\* the piece is placed on it, and {col, board: boardCopy} is returned
childBoardOf(copy, col, piece) ==
    [heap |-> placePieceInPlace(copy.heap, copy.ref, col, piece),
     child |-> [col |-> col, board |-> copy.ref]]

\* the _.map over _.range(0, NUM_COLS) followed by _.compact, from column col on
RECURSIVE childBoardsFrom(_, _, _, _, _)
childBoardsAppend(made, ref, piece, col, acc) ==
    childBoardsFrom(made.heap, ref, piece, col + 1, Append(acc, made.child))

\* a variant without the canPlayAtColumn test: a child for every column
childBoardsFrom_allColumns(heap, ref, piece, col, acc) ==
    IF col >= NUM_COLS THEN [heap |-> heap, childBoards |-> acc]
    ELSE childBoardsAppend(childBoardOf(cloneDeep(heap, ref), col, piece), ref, piece, col, acc)

childBoardsFrom(heap, ref, piece, col, acc) ==
    IF col >= NUM_COLS THEN [heap |-> heap, childBoards |-> acc]
    ELSE IF canPlayAtColumn(heap[ref], col)
         THEN childBoardsAppend(childBoardOf(cloneDeep(heap, ref), col, piece),
                                ref, piece, col, acc)
         ELSE childBoardsFrom(heap, ref, piece, col + 1, acc)

getChildBoardsForBoard(heap, ref, piece) == childBoardsFrom(heap, ref, piece, 0, <<>>)

\* a variant with the two pieces exchanged
nextPieceToMove_exchanged(isMaximizingPlayer, playerPieceMap) ==
    IF isMaximizingPlayer THEN playerPieceMap.minimizingPlayer
    ELSE playerPieceMap.maximizingPlayer

nextPieceToMove(isMaximizingPlayer, playerPieceMap) ==
    IF isMaximizingPlayer THEN playerPieceMap.maximizingPlayer
    ELSE playerPieceMap.minimizingPlayer

\* The loops over childBoards are written as operators that take the result
\* of the recursive call as a parameter (minimaxResult), so that each call of
\* the source is one evaluation here.
RECURSIVE minimax(_, _, _, _, _, _)
RECURSIVE minimaxLoop(_, _, _, _, _, _, _, _)

\* a variant of the loop body that compares with >= and <=
minimaxTurn_lastWins(childBoards, i, depth, isMaximizingPlayer, playerPieceMap, value, bestCol, minimaxResult) ==
    IF (IF isMaximizingPlayer THEN minimaxResult.value >= value
        ELSE minimaxResult.value <= value)
    THEN minimaxLoop(minimaxResult.heap, childBoards, i + 1, depth,
                     isMaximizingPlayer, playerPieceMap,
                     minimaxResult.value, childBoards[i].col)
    ELSE minimaxLoop(minimaxResult.heap, childBoards, i + 1, depth,
                     isMaximizingPlayer, playerPieceMap, value, bestCol)

\* the body of the for-loop of a maximizing or a minimizing node, after the
\* recursive call: `if (minimaxResult.value > value)` or `<`, then the next turn
minimaxTurn(childBoards, i, depth, isMaximizingPlayer, playerPieceMap, value, bestCol, minimaxResult) ==
    IF (IF isMaximizingPlayer THEN minimaxResult.value > value
        ELSE minimaxResult.value < value)
    THEN minimaxLoop(minimaxResult.heap, childBoards, i + 1, depth,
                     isMaximizingPlayer, playerPieceMap,
                     minimaxResult.value, childBoards[i].col)
    ELSE minimaxLoop(minimaxResult.heap, childBoards, i + 1, depth,
                     isMaximizingPlayer, playerPieceMap, value, bestCol)

\* a variant that hands its own isMaximizingPlayer down to the children
minimaxLoop_sameSide(heap, childBoards, i, depth, isMaximizingPlayer, playerPieceMap, value, bestCol) ==
    IF i > Len(childBoards) THEN [col |-> bestCol, value |-> value, heap |-> heap]
    ELSE minimaxTurn(childBoards, i, depth, isMaximizingPlayer, playerPieceMap, value,
                     bestCol,
                     minimax(heap, childBoards[i].board, depth - 1,
                             isMaximizingPlayer, playerPieceMap, childBoards[i].col))

\* the for-loop over childBoards, at its i-th child
minimaxLoop(heap, childBoards, i, depth, isMaximizingPlayer, playerPieceMap, value, bestCol) ==
    IF i > Len(childBoards) THEN [col |-> bestCol, value |-> value, heap |-> heap]
    ELSE minimaxTurn(childBoards, i, depth, isMaximizingPlayer, playerPieceMap, value,
                     bestCol,
                     minimax(heap, childBoards[i].board, depth - 1,
                             ~isMaximizingPlayer, playerPieceMap, childBoards[i].col))

\* the part of minimax after the terminal test
minimaxChildren(kids, depth, isMaximizingPlayer, playerPieceMap) ==
    minimaxLoop(kids.heap, kids.childBoards, 1, depth, isMaximizingPlayer,
                playerPieceMap,
                IF isMaximizingPlayer THEN MIN_SAFE_INTEGER ELSE MAX_SAFE_INTEGER,
                -1)

\* a variant that scores a terminal node for the piece that is to move there
minimax_scoresMover(heap, ref, depth, isMaximizingPlayer, playerPieceMap, col) ==
    IF depth = 0 \/ getResult(heap[ref]) # Null
    THEN [col |-> col,
          value |-> IF isMaximizingPlayer
                    THEN evaluateBoard(heap[ref], playerPieceMap.maximizingPlayer,
                                       playerPieceMap.minimizingPlayer)
                    ELSE evaluateBoard(heap[ref], playerPieceMap.minimizingPlayer,
                                       playerPieceMap.maximizingPlayer),
          heap |-> heap]
    ELSE minimaxChildren(getChildBoardsForBoard(heap, ref,
                             nextPieceToMove(isMaximizingPlayer, playerPieceMap)),
                         depth, isMaximizingPlayer, playerPieceMap)

\* a variant whose terminal test is `depth === 0` alone
minimax_depthOnly(heap, ref, depth, isMaximizingPlayer, playerPieceMap, col) ==
    IF depth = 0
    THEN [col |-> col,
          value |-> evaluateBoard(heap[ref], playerPieceMap.maximizingPlayer,
                                  playerPieceMap.minimizingPlayer),
          heap |-> heap]
    ELSE minimaxChildren(getChildBoardsForBoard(heap, ref,
                             nextPieceToMove(isMaximizingPlayer, playerPieceMap)),
                         depth, isMaximizingPlayer, playerPieceMap)

minimax(heap, ref, depth, isMaximizingPlayer, playerPieceMap, col) ==
    IF depth = 0 \/ getResult(heap[ref]) # Null
    THEN [col |-> col,
          value |-> evaluateBoard(heap[ref], playerPieceMap.maximizingPlayer,
                                  playerPieceMap.minimizingPlayer),
          heap |-> heap]
    ELSE minimaxChildren(getChildBoardsForBoard(heap, ref,
                             nextPieceToMove(isMaximizingPlayer, playerPieceMap)),
                         depth, isMaximizingPlayer, playerPieceMap)

RECURSIVE minimaxWithAlphaBetaPruning(_, _, _, _, _, _, _, _)
RECURSIVE alphaBetaLoop(_, _, _, _, _, _, _, _, _, _, _, _)

\* a variant whose two break tests are reversed (newAlpha <= beta, newBeta >= alpha)
alphaBetaBreak_reversed(heap, childBoards, i, depth, alpha, beta, newAlpha, newBeta, isMaximizingPlayer, playerPieceMap, value, bestCol) ==
    IF isMaximizingPlayer
    THEN IF Max(alpha, value) <= beta
         THEN [col |-> bestCol, value |-> value, heap |-> heap]
         ELSE alphaBetaLoop(heap, childBoards, i + 1, depth, alpha, beta,
                            Max(alpha, value), newBeta,
                            isMaximizingPlayer, playerPieceMap, value, bestCol)
    ELSE IF Min(beta, value) >= alpha
         THEN [col |-> bestCol, value |-> value, heap |-> heap]
         ELSE alphaBetaLoop(heap, childBoards, i + 1, depth, alpha, beta,
                            newAlpha, Min(beta, value),
                            isMaximizingPlayer, playerPieceMap, value, bestCol)

\* the end of the loop body: newAlpha = Math.max(alpha, value) and the break on
\* newAlpha >= beta (maximizing), newBeta = Math.min(beta, value) and the break
\* on newBeta <= alpha (minimizing); value and bestCol are already updated
alphaBetaBreak(heap, childBoards, i, depth, alpha, beta, newAlpha, newBeta, isMaximizingPlayer, playerPieceMap, value, bestCol) ==
    IF isMaximizingPlayer
    THEN IF Max(alpha, value) >= beta
         THEN [col |-> bestCol, value |-> value, heap |-> heap]
         ELSE alphaBetaLoop(heap, childBoards, i + 1, depth, alpha, beta,
                            Max(alpha, value), newBeta,
                            isMaximizingPlayer, playerPieceMap, value, bestCol)
    ELSE IF Min(beta, value) <= alpha
         THEN [col |-> bestCol, value |-> value, heap |-> heap]
         ELSE alphaBetaLoop(heap, childBoards, i + 1, depth, alpha, beta,
                            newAlpha, Min(beta, value),
                            isMaximizingPlayer, playerPieceMap, value, bestCol)

\* the loop body after the recursive call: the update of value and bestCol
alphaBetaTurn(childBoards, i, depth, alpha, beta, newAlpha, newBeta, isMaximizingPlayer, playerPieceMap, value, bestCol, minimaxResult) ==
    IF (IF isMaximizingPlayer THEN minimaxResult.value > value
        ELSE minimaxResult.value < value)
    THEN alphaBetaBreak(minimaxResult.heap, childBoards, i, depth, alpha, beta,
                        newAlpha, newBeta, isMaximizingPlayer, playerPieceMap,
                        minimaxResult.value, childBoards[i].col)
    ELSE alphaBetaBreak(minimaxResult.heap, childBoards, i, depth, alpha, beta,
                        newAlpha, newBeta, isMaximizingPlayer, playerPieceMap,
                        value, bestCol)

\* the for-loop over childBoards, at its i-th child; alpha and beta are the
\* node's parameters, newAlpha and newBeta the values handed to the child
alphaBetaLoop(heap, childBoards, i, depth, alpha, beta, newAlpha, newBeta, isMaximizingPlayer, playerPieceMap, value, bestCol) ==
    IF i > Len(childBoards) THEN [col |-> bestCol, value |-> value, heap |-> heap]
    ELSE alphaBetaTurn(childBoards, i, depth, alpha, beta, newAlpha, newBeta,
                       isMaximizingPlayer, playerPieceMap, value, bestCol,
                       minimaxWithAlphaBetaPruning(heap, childBoards[i].board, depth - 1,
                           newAlpha, newBeta, ~isMaximizingPlayer, playerPieceMap,
                           childBoards[i].col))

\* the part of minimaxWithAlphaBetaPruning after the terminal test
alphaBetaChildren(kids, depth, alpha, beta, isMaximizingPlayer, playerPieceMap) ==
    alphaBetaLoop(kids.heap, kids.childBoards, 1, depth, alpha, beta, alpha, beta,
                  isMaximizingPlayer, playerPieceMap,
                  IF isMaximizingPlayer THEN MIN_SAFE_INTEGER ELSE MAX_SAFE_INTEGER,
                  -1)

minimaxWithAlphaBetaPruning(heap, ref, depth, alpha, beta, isMaximizingPlayer, playerPieceMap, col) ==
    IF depth = 0 \/ getResult(heap[ref]) # Null
    THEN [col |-> col,
          value |-> evaluateBoard(heap[ref], playerPieceMap.maximizingPlayer,
                                  playerPieceMap.minimizingPlayer),
          heap |-> heap]
    ELSE alphaBetaChildren(getChildBoardsForBoard(heap, ref,
                               nextPieceToMove(isMaximizingPlayer, playerPieceMap)),
                           depth, alpha, beta, isMaximizingPlayer, playerPieceMap)

-----------------------------------------------------------------------------
(* Bounds of the model *)

\* PlaceSpec: at most this many pieces are dropped on the empty board (a full
\* column takes NUM_ROWS of them), in the centre column and the MaxPlaceSpan
\* columns to its right
MaxPlaced == 6
MaxPlaceSpan == 2

\* BoardSpec: at most this many columns of a drawn board are not full
MaxOpenStacks == 2

\* SearchSpec: at most this many pieces are dropped on the late-game board, and
\* the searches run with the depths 0 .. MaxSearchDepth
MaxSearchPlaced == 3
MaxSearchDepth == 2
\* SearchSpec: the end-of-game board has this many empty rows in its open columns
EndRows == 2

\* Spec: the line of a human player is followed while the player has fewer
\* than MaxPiecesEach pieces on the board and the draw of a random player
\* while it has fewer than MaxRandomMoves (a line or draw that names a full
\* column is always followed), and a searching player moves while it has fewer
\* than MaxSmartMoves pieces on the board (a game of two searching players is
\* followed to its end)
MaxPiecesEach == 4
MaxRandomMoves == 2
\* the pieces of the opening of a game, during which a human types any line of
\* HumanLines; later on the lines typed name one of the two middle columns
MaxOpeningPieces == 2
\* HumanLines: the one-digit lines 0 .. MaxTypedDigit and the first
\* MaxOtherLines lines of OtherLines
MaxTypedDigit == 8
MaxOtherLines == 6
MaxSmartMoves == 2

\* EndgameSpec: the open columns of the late position have this many empty rows
EndgameRows == 3

-----------------------------------------------------------------------------
(* Helpers of the specifications *)

Turns == {"P1", "P2"}
Variants == {"final", "basic"}

PieceCount(b, piece) ==
    Cardinality({rc \in Rows \X Cols : b[rc[1]][rc[2]] = piece})

Occupied(b) == Cardinality({rc \in Rows \X Cols : b[rc[1]][rc[2]] # Null})

CenterCol == NUM_COLS \div 2
MiddleCols == {CenterCol, CenterCol + 1}

\* the pieces `piece` of b outside the two middle columns
SidePieces(b, piece) ==
    Cardinality({rc \in Rows \X (Cols \ MiddleCols) : b[rc[1]][rc[2]] = piece})
PlaceCols == CenterCol .. Min(CenterCol + MaxPlaceSpan, NUM_COLS - 1)

\* placePiece of the engine that runs
placePieceOf(v, b, col, piece) ==
    IF v = "final" THEN placePiece(b, col, piece) ELSE placePieceBasic(b, col, piece)

-----------------------------------------------------------------------------
(* PlaceSpec: any sequence of placePiece calls on the board of a new Game *)

InitPlace ==
    /\ variant = "final"
    /\ board = EmptyBoard
    /\ turn = "P1"
    /\ pc = "loop"
    /\ typedLine = Null
    /\ moveCol = Null
    /\ result = Null
    /\ modes = [t \in Turns |-> "human"]
    /\ last = [op |-> "init"]

\* game.placePiece(board, col, piece) of either engine (v), a column of
\* PlaceCols and any piece; a call that adds a piece needs room under the bound, a
\* call on a full column is always possible.  last holds the arguments of the
\* call and whether it found a row.
Place(v, col, piece, room) ==
    /\ room \/ ~canPlayAtColumn(board, col)
    /\ board' = placePieceOf(v, board, col, piece)
    /\ last' = [op |-> "place", col |-> col, piece |-> piece,
                landed |-> canPlayAtColumn(board, col)]
    /\ UNCHANGED <<variant, turn, pc, typedLine, moveCol, result, modes>>

\* column indices outside 0 .. NUM_COLS - 1: negative, too large, NaN
OutsideCols == {-1, NUM_COLS, NaN}

\* game.getLowestEmptyRowForColumn(board, col) and game.placePiece(board, col,
\* piece) of either engine (v) with a column index outside the board.  last
\* holds the row returned and whether the board changed.
PlaceOutside(v, col, piece) ==
    /\ last.op # "placeOutside"
    /\ board' = placePieceOf(v, board, col, piece)
    /\ last' = [op |-> "placeOutside", col |-> col,
                row |-> getLowestEmptyRowForColumn(board, col),
                changed |-> placePieceOf(v, board, col, piece) # board]
    /\ UNCHANGED <<variant, turn, pc, typedLine, moveCol, result, modes>>

\* room: fewer than MaxPlaced pieces lie on the board
NextPlace ==
    \/ LET room == Occupied(board) < MaxPlaced
       IN \E v \in Variants, col \in PlaceCols, piece \in Pieces : Place(v, col, piece, room)
    \/ \E v \in Variants, col \in OutsideCols, piece \in Pieces : PlaceOutside(v, col, piece)

PlaceSpec == InitPlace /\ [][NextPlace]_vars

-----------------------------------------------------------------------------
(* BoardSpec: getResult applied to boards drawn from a                       *)
(* bounded family.  A board of the family is given column by column, each    *)
(* column a stack of pieces from the bottom up, so it satisfies the gravity  *)
(* invariant.                                                               *)

StackEmpty == <<>>
StackRY == <<Red, Yellow, Red, Yellow, Red, Yellow>>
StackYR == <<Yellow, Red, Yellow, Red, Yellow, Red>>
StackR4 == <<Red, Red, Red, Red>>
StackY4 == <<Yellow, Yellow, Yellow, Yellow>>
Stacks == {StackEmpty, StackRY, StackYR, StackR4, StackY4}

\* the board whose column col holds the stack s[col]
StackBoard(s) ==
    [row \in Rows |-> [col \in Cols |->
        IF NUM_ROWS - row <= Len(s[col]) THEN s[col][NUM_ROWS - row] ELSE Null]]

OpenStacks(s) == Cardinality({col \in Cols : Len(s[col]) < NUM_ROWS})

InitBoard ==
    /\ variant = "final"
    /\ \E s \in [Cols -> Stacks] :
          /\ OpenStacks(s) <= MaxOpenStacks
          /\ board = StackBoard(s)
    /\ turn = "P1"
    /\ pc = "loop"
    /\ typedLine = Null
    /\ moveCol = Null
    /\ result = Null
    /\ modes = [t \in Turns |-> "human"]
    /\ last = [op |-> "init"]

\* game.getResult(board) of the final engine and getResult() of game.ts on the
\* same board
JudgeResult ==
    /\ last.op = "init"
    /\ last' = [op |-> "getResult", result |-> getResult(board),
                basic |-> getResultBasic(board)]
    /\ UNCHANGED <<variant, board, turn, pc, typedLine, moveCol, result, modes>>

NextBoard == JudgeResult

BoardSpec == InitBoard /\ [][NextBoard]_vars

-----------------------------------------------------------------------------
(* SearchSpec: the searches and the evaluator applied to positions late in  *)
(* a game.  The columns outside SearchCols are full, filled so that no line *)
(* of four lies in them; the columns of SearchCols start empty and take any *)
(* pieces.                                                                  *)

SearchCols == {CenterCol, CenterCol + 1}

\* the filling of the full columns: pairs of columns alternate row by row
FillPiece(row, col) == IF (row + col \div 2) % 2 = 0 THEN Red ELSE Yellow

LateBoard ==
    [row \in Rows |-> [col \in Cols |->
        IF col \in SearchCols THEN Null ELSE FillPiece(row, col)]]

\* a position at the very end of a game: the columns of SearchCols are filled
\* the same way up to their top EndRows cells, so a few drops fill the board
EndBoard ==
    [row \in Rows |-> [col \in Cols |->
        IF col \in SearchCols /\ row < EndRows THEN Null ELSE FillPiece(row, col)]]

\* a position late in a game of a human player 1 and a random player 2: the
\* top row is empty and the columns of SearchCols have their top EndgameRows cells
\* empty, the other cells are filled as above.  Player 2 holds no more than
\* one piece less than player 1 would need, and the play that leads here
\* fills the columns one after the other from the bottom, player 1 typing a
\* line that places nothing whenever player 2's piece comes next twice.
TopOpenBoard ==
    [row \in Rows |-> [col \in Cols |->
        IF row = 0 \/ (col \in SearchCols /\ row < EndgameRows) THEN Null
        ELSE FillPiece(row, col)]]

OtherPiece(piece) == IF piece = Red THEN Yellow ELSE Red

InitSearch ==
    /\ variant = "final"
    /\ board \in {LateBoard, EndBoard}
    /\ turn = "P1"
    /\ pc = "loop"
    /\ typedLine = Null
    /\ moveCol = Null
    /\ result = Null
    /\ modes = [t \in Turns |-> "human"]
    /\ last = [op |-> "init"]

\* game.placePiece(game.board, col, piece) on a column with room: at most
\* MaxSearchPlaced pieces on LateBoard, any number on EndBoard (which fills up)
Drop(col, piece) ==
    /\ \/ Occupied(board) < Occupied(LateBoard) + MaxSearchPlaced
       \/ Occupied(board) >= Occupied(EndBoard)
    /\ canPlayAtColumn(board, col)
    /\ board' = placePiece(board, col, piece)
    /\ last' = [op |-> "drop"]
    /\ UNCHANGED <<variant, turn, pc, typedLine, moveCol, result, modes>>

\* the piece assignment of a search by the player holding `piece`
pieceMapOf(piece) ==
    [maximizingPlayer |-> piece, minimizingPlayer |-> OtherPiece(piece)]

\* what the two searches returned and the live board as they leave it
searchOutcome(mm, ab) ==
    [minimax |-> [col |-> mm.col, value |-> mm.value],
     alphaBeta |-> [col |-> ab.col, value |-> ab.value],
     board |-> ab.heap[1]]

alphaBetaAfter(mm, piece, depth) ==
    searchOutcome(mm, minimaxWithAlphaBetaPruning(mm.heap, 1, depth, MIN_SAFE_INTEGER,
                          MAX_SAFE_INTEGER, TRUE, pieceMapOf(piece), -1))

\* game.minimax and then game.minimaxWithAlphaBetaPruning called as
\* Player.getColumnForSmartAIMove calls them, on the live board b, which is the
\* first board of the store
bothSearches(b, piece, depth) ==
    alphaBetaAfter(minimax(<<b>>, 1, depth, TRUE, pieceMapOf(piece), -1), piece, depth)

SearchDone(piece, depth, outcome) ==
    /\ board' = outcome.board
    /\ last' = [op |-> "search", piece |-> piece, depth |-> depth, before |-> board,
                minimax |-> outcome.minimax, alphaBeta |-> outcome.alphaBeta]
    /\ UNCHANGED <<variant, turn, pc, typedLine, moveCol, result, modes>>

\* Player.getColumnForSmartAIMove for the player holding `piece`, with both
\* strategies one after the other and MAX_DEPTH = depth.  board' is the live
\* board as the two calls leave it.
Search(piece, depth) ==
    /\ last.op \in {"init", "drop"}
    /\ SearchDone(piece, depth, bothSearches(board, piece, depth))

\* the columns a parent hands down in the model
NodeCols == SearchCols

nodeSearches(b, piece, depth, col) ==
    searchOutcome(minimax(<<b>>, 1, depth, FALSE, pieceMapOf(piece), col),
                  minimaxWithAlphaBetaPruning(<<b>>, 1, depth, MIN_SAFE_INTEGER,
                      MAX_SAFE_INTEGER, FALSE, pieceMapOf(piece), col))

NodeDone(piece, depth, col, outcome) ==
    /\ board' = outcome.board
    /\ last' = [op |-> "node", piece |-> piece, depth |-> depth, col |-> col,
                before |-> board, minimax |-> outcome.minimax,
                alphaBeta |-> outcome.alphaBeta]
    /\ UNCHANGED <<variant, turn, pc, typedLine, moveCol, result, modes>>

\* the call a maximizing node makes for its child in column col, the live
\* board being the child board: this.minimax(childBoard.board, depth - 1,
\* false, playerPieceMap, childBoard.col) and the same call of
\* minimaxWithAlphaBetaPruning with the bounds of a first child of the root;
\* `piece` is the maximizing piece and `depth` the depth handed down
SearchNode(piece, depth, col) ==
    /\ last.op \in {"init", "drop"}
    /\ NodeDone(piece, depth, col, nodeSearches(board, piece, depth, col))

\* game.evaluateBoard(game.board, A, B) for both assignments of the pieces
Evaluate ==
    /\ last.op \in {"init", "drop"}
    /\ last' = [op |-> "evaluateBoard",
                score |-> [p \in Pieces |-> evaluateBoard(board, p, OtherPiece(p))]]
    /\ UNCHANGED <<variant, board, turn, pc, typedLine, moveCol, result, modes>>

NextSearch ==
    \/ \E col \in SearchCols, piece \in Pieces : Drop(col, piece)
    \/ \E piece \in Pieces, depth \in 0 .. MaxSearchDepth : Search(piece, depth)
    \/ Evaluate

SearchSpec == InitSearch /\ [][NextSearch]_vars

\* NodeSpec: the same positions, searched as single nodes of the tree: the
\* minimizing nodes a root of depth 1 .. MAX_DEPTH calls, and the maximizing
\* root with the depths of a node below the configured root
NextNode ==
    \/ \E col \in SearchCols, piece \in Pieces : Drop(col, piece)
    \/ \E piece \in Pieces, depth \in 0 .. MAX_DEPTH - 1, col \in NodeCols :
          SearchNode(piece, depth, col)
    \/ \E piece \in Pieces, depth \in 0 .. MAX_DEPTH - 1 : Search(piece, depth)

NodeSpec == InitSearch /\ [][NextNode]_vars

\* DeepSpec: the same positions, searched by getColumnForSmartAIMove with the
\* depths 1 .. MAX_DEPTH + 1, one ply more than the configured depth
DeepDepth == MAX_DEPTH + 1

\* game.minimax(game.board, depth, true, playerPieceMap, -1) for the player
\* holding `piece`; `boards` is the store the call leaves behind: the live
\* board first, then every board the search made with _.cloneDeep and
\* placePiece, in the order of their making
Explore(piece, depth) ==
    /\ last.op \in {"init", "drop"}
    /\ last' = [op |-> "explore", piece |-> piece, depth |-> depth, before |-> board,
                boards |-> minimax(<<board>>, 1, depth, TRUE, pieceMapOf(piece), -1).heap]
    /\ UNCHANGED <<variant, board, turn, pc, typedLine, moveCol, result, modes>>

NextDeep ==
    \/ \E col \in SearchCols, piece \in Pieces : Drop(col, piece)
    \/ \E piece \in Pieces, depth \in 1 .. DeepDepth : Search(piece, depth)
    \/ \E piece \in Pieces, depth \in 1 .. DeepDepth : Explore(piece, depth)

DeepSpec == InitSearch /\ [][NextDeep]_vars

\* SnapshotSpec: the terminal test of the search in the engines whose
\* getResult takes a board, on the same positions
InitSnapshot ==
    /\ variant \in BoardArgVariants
    /\ board \in {LateBoard, EndBoard}
    /\ turn = "P1"
    /\ pc = "loop"
    /\ typedLine = Null
    /\ moveCol = Null
    /\ result = Null
    /\ modes = [t \in Turns |-> "human"]
    /\ last = [op |-> "init"]

\* minimax called for the child board of column col, as the loop over
\* getChildBoardsForBoard(board, piece) calls it: `const result =
\* this.getResult(board)` with the clone that holds the new piece, the live
\* board being as it was
TerminalTest(col, piece) ==
    /\ last.op \in {"init", "drop"}
    /\ canPlayAtColumn(board, col)
    /\ last' = [op |-> "terminalTest", col |-> col, piece |-> piece,
                arg |-> placePiece(board, col, piece),
                result |-> getResultIn(variant, board, placePiece(board, col, piece))]
    /\ UNCHANGED <<variant, board, turn, pc, typedLine, moveCol, result, modes>>

NextSnapshot ==
    \/ \E col \in SearchCols, piece \in Pieces : Drop(col, piece)
    \/ \E col \in SearchCols, piece \in Pieces : TerminalTest(col, piece)

SnapshotSpec == InitSnapshot /\ [][NextSnapshot]_vars

-----------------------------------------------------------------------------
(* Spec: the turn loop, Game.play, of both engines.  Game.play and Player.move *)
(* are async: a turn of the while loop runs in the stretches their awaits      *)
(* leave, one action each.  First the test of getResult and the call of        *)
(* player.move up to its await of getColumnForMove (for a human, up to the     *)
(* prompt; then the line arrives and resolves the prompt; then                 *)
(* getColumnForMove resumes and returns the column of the line); then, the     *)
(* column being there, placePiece; then, play resuming after                   *)
(* `await player.move(this)`, the change of turn.  Or the loop ends.           *)

\* how a player chooses its column: isHuman, or else its strategy
Strategies == {"human", "random", "minimax", "minimax_alpha_beta"}

\* main() makes player1 human in both engines; game.ts has no search
Setups(v) ==
    {m \in [Turns -> Strategies] :
        /\ m["P1"] = "human"
        /\ (v = "basic") => m["P2"] \in {"human", "random"}}

\* A line typed at the prompt is the sequence of its characters, each written
\* as its UTF-16 code unit: "4" is <<52>>, " 4" is <<32, 52>>.

\* lines that are not one decimal digit: x; space 4; vertical tab 4; 0x5; -3;
\* -1000
OtherLines ==
    << <<120>>, <<32, 52>>, <<11, 52>>, <<48, 120, 53>>, <<45, 51>>,
       <<45, 49, 48, 48, 48>> >>

\* the lines a human types at the prompt
HumanLines ==
    {<<48 + digit>> : digit \in 0 .. Min(MaxTypedDigit, 9)}
        \cup {OtherLines[i] : i \in 1 .. Min(MaxOtherLines, Len(OtherLines))}

\* Math.floor(Math.random() * Game.NUM_COLS): the columns one draw can yield
getRandomColumn == 0 .. NUM_COLS - 1

\* the white space parseInt skips at the start of a line (WhiteSpace and
\* LineTerminator of the language): tab, line feed, vertical tab, form feed,
\* carriage return, space, no-break space, U+1680, U+2000 .. U+200A, line
\* separator, paragraph separator, U+202F, U+205F, U+3000, U+FEFF
WhiteSpace ==
    {9, 10, 11, 12, 13, 32, 160, 5760, 8232, 8233, 8239, 8287, 12288, 65279}
        \cup (8192 .. 8202)

\* the value of character c as a digit of the radix (0-9, and a-f or A-F with
\* radix 16), NaN when it is none
digitValue(c, radix) ==
    IF c \in 48 .. 57 THEN c - 48
    ELSE IF radix = 16 /\ c \in 97 .. 102 THEN c - 87
    ELSE IF radix = 16 /\ c \in 65 .. 70 THEN c - 55
    ELSE NaN

\* the index of the first character of line, from i on, that is no white space
RECURSIVE skipWhiteSpace(_, _)
skipWhiteSpace(line, i) ==
    IF i <= Len(line) /\ line[i] \in WhiteSpace THEN skipWhiteSpace(line, i + 1) ELSE i

\* the number spelled by the digits of the radix that line holds from i on, up
\* to the first character that is no such digit; NaN when there is no digit
RECURSIVE parseDigits(_, _, _, _)
parseDigits(line, i, radix, acc) ==
    IF i > Len(line) \/ digitValue(line[i], radix) = NaN THEN acc
    ELSE parseDigits(line, i + 1, radix,
                     (IF acc = NaN THEN 0 ELSE acc) * radix + digitValue(line[i], radix))

\* parseInt(col) without a radix: leading white space is skipped, then a sign
\* (+ or -) is read, then the prefix 0x or 0X (radix 16, else 10), then the
\* digits up to the first other character; NaN when there is no digit
parseInt(line) ==
    LET start == skipWhiteSpace(line, 1)
        signed == start <= Len(line) /\ line[start] \in {43, 45}
        negative == signed /\ line[start] = 45
        from == IF signed THEN start + 1 ELSE start
        hex == from + 1 <= Len(line) /\ line[from] = 48 /\ line[from + 1] \in {120, 88}
        number == IF hex THEN parseDigits(line, from + 2, 16, NaN)
                  ELSE parseDigits(line, from, 10, NaN)
    IN IF number = NaN THEN NaN ELSE IF negative THEN -number ELSE number

\* `parseInt(col) - 1`; NaN - 1 is NaN
humanColumn(line) == IF parseInt(line) = NaN THEN NaN ELSE parseInt(line) - 1

otherTurn(t) == IF t = "P1" THEN "P2" ELSE "P1"
pieceOfTurn(t) == IF t = "P1" THEN player1Piece ELSE player2Piece

\* a variant of the result that reports the draw of a full board and no win
getResultOf_drawOnly(v, b) ==
    IF \E row \in Rows, col \in Cols : b[row][col] = Null THEN Null ELSE Draw

\* this.getResult(this.board) of the engine that runs
getResultOf(v, b) == IF v = "final" THEN getResult(b) ELSE getResultBasic(b)

Init ==
    /\ variant \in Variants
    /\ board = EmptyBoard
    /\ turn = "P1"
    /\ pc = "loop"
    /\ typedLine = Null
    /\ moveCol = Null
    /\ result = Null
    /\ modes \in Setups(variant)
    /\ last = [op |-> "init"]

\* a variant of the human turn without the test of the while loop
HumanMove_noTest ==
    /\ pc = "loop"
    /\ modes[turn] = "human"
    /\ pc' = "prompt"
    /\ last' = [op |-> "ask", turn |-> turn]
    /\ UNCHANGED <<variant, board, turn, typedLine, moveCol, result, modes>>

\* the turn of a human player begins: the while test holds (getResult is
\* null), play calls player.move, getColumnForMove asks the prompt, and the
\* loop waits there for the line
HumanMove ==
    /\ pc = "loop"
    /\ modes[turn] = "human"
    /\ getResultOf(variant, board) = Null
    /\ pc' = "prompt"
    /\ last' = [op |-> "ask", turn |-> turn]
    /\ UNCHANGED <<variant, board, turn, typedLine, moveCol, result, modes>>

\* the lines of a human that the model follows on board b, `col` being the
\* column the line names and `piece` the piece of the player: every line while
\* the board holds fewer than MaxOpeningPieces pieces; later on a line that
\* names one of the two middle columns, when that column is full, or the
\* player has no piece outside the middle columns and fewer than
\* MaxPiecesEach pieces, or the board is one of the endgame
FollowedLine(b, col, piece) ==
    \/ Occupied(b) < MaxOpeningPieces
    \/ /\ col \in MiddleCols
       /\ \/ ~canPlayAtColumn(b, col)
          \/ SidePieces(b, piece) = 0 /\ PieceCount(b, piece) < MaxPiecesEach
          \/ Occupied(b) >= Occupied(TopOpenBoard)

\* the human typed `line`: rl.question calls its callback, which resolves the
\* promise of Player.prompt with the line
HumanTypes(line) ==
    /\ pc = "prompt"
    /\ FollowedLine(board, humanColumn(line), pieceOfTurn(turn))
    /\ typedLine' = line
    /\ pc' = "typed"
    /\ last' = [op |-> "line", turn |-> turn]
    /\ UNCHANGED <<variant, board, turn, moveCol, result, modes>>

\* getColumnForMove of a human resumes with the line it awaited and returns
\* parseInt(col) - 1, which Player.move awaits
HumanColumn ==
    /\ pc = "typed"
    /\ moveCol' = humanColumn(typedLine)
    /\ typedLine' = Null
    /\ pc' = "move"
    /\ last' = [op |-> "column", turn |-> turn]
    /\ UNCHANGED <<variant, board, turn, result, modes>>

\* `if (emptyRow)`: null and 0 are falsy
truthyRow(row) == row # NoRow /\ row # 0

\* getColumnForRandomAIMove(game) on board b: the columns the loop can return,
\* those drawn with a truthy emptyRow (it draws again after any other column,
\* and never returns when no column has a truthy emptyRow)
getColumnForRandomAIMove(b) ==
    {randomCol \in getRandomColumn : truthyRow(getLowestEmptyRowForColumn(b, randomCol))}

\* the columns getColumnForMove of a random player can return on board b: in
\* the final engine those of getColumnForRandomAIMove, in game.ts any column
\* drawn
randomColumns(v, b) ==
    IF v = "final" THEN getColumnForRandomAIMove(b) ELSE getRandomColumn

\* the draws of a random player that the model follows on board b for `piece`:
\* those that place nothing, those of a player with fewer than MaxRandomMoves
\* pieces, and those on the boards of the endgame
FollowedDraw(b, randomCol, piece) ==
    \/ ~canPlayAtColumn(b, randomCol)
    \/ PieceCount(b, piece) < MaxRandomMoves
    \/ Occupied(b) >= Occupied(TopOpenBoard)

\* the turn of a random player begins: the while test holds, play calls
\* player.move and getColumnForMove returns the column drawn, which
\* Player.move awaits
RandomMove ==
    /\ pc = "loop"
    /\ modes[turn] = "random"
    /\ getResultOf(variant, board) = Null
    /\ \E randomCol \in randomColumns(variant, board) :
          /\ FollowedDraw(board, randomCol, pieceOfTurn(turn))
          /\ moveCol' = randomCol
    /\ pc' = "move"
    /\ last' = [op |-> "column", turn |-> turn]
    /\ UNCHANGED <<variant, board, turn, typedLine, result, modes>>

\* a variant that searches with depth 0
smartSearch_depthZero(b, piece, shouldUseAlphaBetaPruning) ==
    IF shouldUseAlphaBetaPruning
    THEN minimaxWithAlphaBetaPruning(<<b>>, 1, 0, MIN_SAFE_INTEGER,
                                     MAX_SAFE_INTEGER, TRUE, pieceMapOf(piece), -1)
    ELSE minimax(<<b>>, 1, 0, TRUE, pieceMapOf(piece), -1)

\* getColumnForSmartAIMove(game, shouldUseAlphaBetaPruning) on the live board,
\* the first board of the store
smartSearch(b, piece, shouldUseAlphaBetaPruning) ==
    IF shouldUseAlphaBetaPruning
    THEN minimaxWithAlphaBetaPruning(<<b>>, 1, MAX_DEPTH, MIN_SAFE_INTEGER,
                                     MAX_SAFE_INTEGER, TRUE, pieceMapOf(piece), -1)
    ELSE minimax(<<b>>, 1, MAX_DEPTH, TRUE, pieceMapOf(piece), -1)

\* `return minimaxResult.col`: the search has left the live board as the first
\* board of its store, and its column is what Player.move awaits
SmartReturns(found) ==
    /\ board' = found.heap[1]
    /\ moveCol' = found.col

\* the turn of a player with the strategy minimax or minimax_alpha_beta
\* begins: the while test holds, play calls player.move and getColumnForMove
\* returns the column of the search, which Player.move awaits
SmartMove ==
    /\ pc = "loop"
    /\ variant = "final"
    /\ modes[turn] \in {"minimax", "minimax_alpha_beta"}
    /\ getResultOf(variant, board) = Null
    /\ \/ PieceCount(board, pieceOfTurn(turn)) < MaxSmartMoves
       \/ modes[otherTurn(turn)] \in {"minimax", "minimax_alpha_beta"}
    /\ SmartReturns(smartSearch(board, pieceOfTurn(turn), modes[turn] = "minimax_alpha_beta"))
    /\ pc' = "move"
    /\ last' = [op |-> "column", turn |-> turn]
    /\ UNCHANGED <<variant, turn, typedLine, result, modes>>

\* Player.move resumes with the column it awaited: game.placePiece(game.board, col, this.piece); this.turn is still
\* the mover's
MovePlaces ==
    /\ pc = "move"
    /\ board' = placePieceOf(variant, board, moveCol, pieceOfTurn(turn))
    /\ moveCol' = Null
    /\ pc' = "placed"
    /\ last' = [op |-> "move", turn |-> turn, col |-> moveCol, landed |-> board' # board]
    /\ UNCHANGED <<variant, turn, typedLine, result, modes>>

\* a variant of the end of a turn that keeps the turn when no piece was placed
MoveDone_keepsTurn ==
    /\ pc = "placed"
    /\ turn' = (IF last.landed THEN otherTurn(turn) ELSE turn)
    /\ pc' = "loop"
    /\ last' = [op |-> "turn", from |-> turn, landed |-> last.landed]
    /\ UNCHANGED <<variant, board, typedLine, moveCol, result, modes>>

\* the end of a turn of the loop: play resumes after `await player.move(this)`
\* and sets this.turn to the other player, whatever placePiece did
MoveDone ==
    /\ pc = "placed"
    /\ turn' = otherTurn(turn)
    /\ pc' = "loop"
    /\ last' = [op |-> "turn", from |-> turn, landed |-> last.landed]
    /\ UNCHANGED <<variant, board, typedLine, moveCol, result, modes>>

\* the while test fails: getResult is not null, the loop ends
Finish ==
    /\ pc = "loop"
    /\ getResultOf(variant, board) # Null
    /\ result' = getResultOf(variant, board)
    /\ pc' = "done"
    /\ last' = [op |-> "finish"]
    /\ UNCHANGED <<variant, board, turn, typedLine, moveCol, modes>>

Next ==
    \/ HumanMove
    \/ \E line \in HumanLines : HumanTypes(line)
    \/ HumanColumn
    \/ RandomMove
    \/ SmartMove
    \/ MovePlaces
    \/ MoveDone
    \/ Finish

Spec == Init /\ [][Next]_vars

-----------------------------------------------------------------------------
(* EndgameSpec: the turn loop of the final engine late in a game of a human *)
(* player 1 and a random player 2, from TopOpenBoard on, player 2 to move.  *)

InitEndgame ==
    /\ variant = "final"
    /\ board = TopOpenBoard
    /\ turn = "P2"
    /\ pc = "loop"
    /\ typedLine = Null
    /\ moveCol = Null
    /\ result = Null
    /\ modes = [t \in Turns |-> IF t = "P1" THEN "human" ELSE "random"]
    /\ last = [op |-> "init"]

NextEndgame ==
    \/ HumanMove
    \/ \E line \in HumanLines : HumanTypes(line)
    \/ HumanColumn
    \/ RandomMove
    \/ MovePlaces
    \/ MoveDone
    \/ Finish

EndgameSpec == InitEndgame /\ [][NextEndgame]_vars

-----------------------------------------------------------------------------
(* SmartSpec: the turn loop of the final engine when both players select    *)
(* their moves with the search, from the empty board to the end of the     *)
(* game.  Game.play awaits each move and runs on: the loop ends once its   *)
(* test fails (weak fairness of Finish), an awaited move resumes and       *)
(* places its piece, play resumes after the move and sets the turn, and    *)
(* while the test holds the move of the player in turn, a search of        *)
(* bounded depth, is made.  A search is enabled exactly while the loop is  *)
(* at its test and the test holds, so SmartRuns is weak fairness of        *)
(* SmartMove.                                                               *)

SmartStrategies == {"minimax", "minimax_alpha_beta"}

InitSmart ==
    /\ variant = "final"
    /\ board = EmptyBoard
    /\ turn = "P1"
    /\ pc = "loop"
    /\ typedLine = Null
    /\ moveCol = Null
    /\ result = Null
    /\ modes \in [Turns -> SmartStrategies]
    /\ last = [op |-> "init"]

NextSmart ==
    \/ SmartMove
    \/ MovePlaces
    \/ MoveDone
    \/ Finish

SmartRuns == []<>(pc # "loop" \/ getResult(board) # Null) \/ []<><<SmartMove>>_vars

SmartSpec ==
    /\ InitSmart
    /\ [][NextSmart]_vars
    /\ WF_vars(Finish)
    /\ WF_vars(MovePlaces)
    /\ WF_vars(MoveDone)
    /\ SmartRuns

\* the columns of b that can be played
PlayableCols(b) == {col \in Cols : canPlayAtColumn(b, col)}

-----------------------------------------------------------------------------
(* Properties of the board model *)

\* no cell of b is occupied while the cell directly below it is empty
Gravity(b) ==
    \A row \in Rows, col \in Cols :
        (row < NUM_ROWS - 1 /\ b[row][col] # Null) => b[row + 1][col] # Null

\* C1. Gravity invariant: after any sequence of placePiece calls on the empty
\* board (any columns, any pieces, full columns included) no cell is occupied
\* while the cell directly below it is empty.
C1_Gravity == Gravity(board)

\* a piece lies on top of another piece after a call on a full column was made
C1_Witness ==
    /\ last.op = "place"
    /\ ~last.landed
    /\ \E col \in Cols : board[0][col] # Null /\ board[NUM_ROWS - 1][col] # Null

\* the rows of column col whose cell is empty
EmptyRowsOf(b, col) == {row \in Rows : b[row][col] = Null}

\* C5. On every board that satisfies the gravity invariant and for every column
\* of the board, getLowestEmptyRowForColumn returns the largest row whose cell
\* in the column is empty, and null exactly when the top cell of the column is
\* occupied; canPlayAtColumn is true exactly when the row is not null.
C5_LowestEmptyRow ==
    Gravity(board) =>
        \A col \in Cols :
            LET r == getLowestEmptyRowForColumn(board, col)
                empties == EmptyRowsOf(board, col)
            IN /\ (empties # {}) => (r \in empties /\ \A row \in empties : row <= r)
               /\ (r = NoRow) <=> (board[0][col] # Null)
               /\ canPlayAtColumn(board, col) <=> (r # NoRow)

\* one column is full (null) while another is empty (the bottom row)
C5_Witness ==
    /\ Gravity(board)
    /\ \E c1 \in Cols, c2 \in Cols :
        /\ getLowestEmptyRowForColumn(board, c1) = NoRow
        /\ board[0][c1] # Null
        /\ getLowestEmptyRowForColumn(board, c2) = NUM_ROWS - 1

\* what a call placePiece(before, col, piece) may change
PlaceFrame(before, after, col, piece) ==
    LET row == getLowestEmptyRowForColumn(before, col)
    IN IF row = NoRow
       THEN after = before
       ELSE /\ before[row][col] = Null
            /\ after[row][col] = piece
            /\ \A r \in Rows, c \in Cols :
                  (r # row \/ c # col) => after[r][c] = before[r][c]

\* C6. placePiece(board, col, piece) with col a column of the board: when the
\* column is not full exactly one cell changes, the cell at
\* (getLowestEmptyRowForColumn(board, col), col), from empty to piece; when the
\* column is full no cell changes.
C6_PlaceFrame ==
    [][last'.op = "place" => PlaceFrame(board, board', last'.col, last'.piece)]_vars

\* both cases happened: the column was filled by calls that each added a
\* piece, and then a call was made on the full column
C6_Witness ==
    /\ last.op = "place"
    /\ ~last.landed
    /\ \A row \in Rows : board[row][last.col] # Null

\* every piece of b lies in column col
OnlyInColumn(b, col) == \A row \in Rows, c \in Cols \ {col} : b[row][c] = Null

\* C18 as stated. On an empty board, after one piece is placed at column 3
\* getLowestEmptyRowForColumn(board, 3) returns row 5 (the bottom row); after a
\* second placement at column 3 it returns row 4.
C18_RowAfterPlacing ==
    (last.op = "place" /\ last.col = 3 /\ last.landed /\ board[NUM_ROWS - 1][3] # Null) =>
        /\ (Occupied(board) = 1) => getLowestEmptyRowForColumn(board, 3) = 5
        /\ (Occupied(board) = 2 /\ board[NUM_ROWS - 2][3] # Null)
              => getLowestEmptyRowForColumn(board, 3) = 4

\* C18 amended. On an empty board getLowestEmptyRowForColumn(board, 3) returns
\* row 5 (the bottom row) and the first piece placed at column 3 lands there;
\* after that placement it returns row 4, where a second piece placed at
\* column 3 lands, and after the second placement it returns row 3.
C18_RowOfPlacing ==
    /\ (Occupied(board) = 0) => getLowestEmptyRowForColumn(board, 3) = 5
    /\ (last.op = "place" /\ last.col = 3 /\ last.landed /\ Occupied(board) = 1) =>
          /\ board[5][3] = last.piece
          /\ getLowestEmptyRowForColumn(board, 3) = 4
    /\ (last.op = "place" /\ last.col = 3 /\ last.landed /\ Occupied(board) = 2
            /\ OnlyInColumn(board, 3)) =>
          /\ board[5][3] # Null
          /\ board[4][3] = last.piece
          /\ getLowestEmptyRowForColumn(board, 3) = 3

\* two pieces were placed at column 3 of the empty board, the second on top
\* of the first
C18_Witness ==
    /\ last.op = "place" /\ last.col = 3 /\ last.landed
    /\ Occupied(board) = 2
    /\ OnlyInColumn(board, 3)
    /\ board[5][3] # Null
    /\ board[4][3] = last.piece
    /\ getLowestEmptyRowForColumn(board, 3) = 3

\* C16. A column index outside 0 .. NUM_COLS - 1 (negative, too large or NaN)
\* passed to getLowestEmptyRowForColumn or placePiece is rejected with an
\* outcome that differs from the one of a full column (null), and the board
\* is left unchanged.
C16_OutsideColumnRejected ==
    (last.op = "placeOutside") => (last.row # NoRow /\ ~last.changed)

-----------------------------------------------------------------------------
(* Properties of win and draw detection *)

\* the four line directions, as (row step, column step)
Directions == {<<0, 1>>, <<1, 0>>, <<1, 1>>, <<-1, 1>>}

\* piece holds 4 consecutive cells of one line of the board
HasFour(b, piece) ==
    \E row \in Rows, col \in Cols, d \in Directions :
        \A i \in 0 .. 3 :
            /\ row + i * d[1] \in Rows
            /\ col + i * d[2] \in Cols
            /\ b[row + i * d[1]][col + i * d[2]] = piece

HasEmptyCell(b) == \E row \in Rows, col \in Cols : b[row][col] = Null

\* C2. On a board that satisfies the gravity invariant getResult (of either
\* engine) reports a win of a piece only if that piece holds 4 consecutive
\* cells of a line, and whenever some piece holds such 4 cells getResult
\* reports a win.
C2_WinDetection ==
    (last.op = "getResult" /\ Gravity(board)) =>
        /\ (last.result = P1Wins) => HasFour(board, player1Piece)
        /\ (last.result = P2Wins) => HasFour(board, player2Piece)
        /\ (HasFour(board, Red) \/ HasFour(board, Yellow))
              => last.result \in {P1Wins, P2Wins}
        /\ (last.basic = P1Win) => HasFour(board, Red)
        /\ (last.basic = P2Win) => HasFour(board, Yellow)
        /\ (HasFour(board, Red) \/ HasFour(board, Yellow))
              => last.basic \in {P1Win, P2Win}

\* a win of player 2 was reported on a board where player 1 holds no line
C2_Witness ==
    /\ last.op = "getResult"
    /\ Gravity(board)
    /\ last.result = P2Wins
    /\ last.basic = P2Win
    /\ HasFour(board, player2Piece)
    /\ ~HasFour(board, player1Piece)

\* C7. With no 4-in-a-row on the board getResult is null (in progress) when
\* some cell is empty and Draw when no cell is empty; a full board that holds
\* a 4-in-a-row is reported as a win, not as a draw.
C7_DrawOrInProgress ==
    (last.op = "getResult") =>
        LET four == HasFour(board, Red) \/ HasFour(board, Yellow)
        IN /\ (~four /\ HasEmptyCell(board)) => last.result = Null
           /\ (~four /\ ~HasEmptyCell(board)) => last.result = Draw
           /\ (four /\ ~HasEmptyCell(board)) => last.result \in {P1Wins, P2Wins}

\* a full board without a line was judged a draw
C7_Witness ==
    /\ last.op = "getResult"
    /\ ~HasEmptyCell(board)
    /\ ~HasFour(board, Red) /\ ~HasFour(board, Yellow)
    /\ last.result = Draw

\* the cells that start a complete 4-cell window of their own piece in one of
\* the four directions (right, down, down-right, up-right)
StartCells(b) ==
    {rc \in Rows \X Cols :
        /\ b[rc[1]][rc[2]] \in Pieces
        /\ \E d \in Directions :
              \A i \in 0 .. 3 :
                  /\ rc[1] + i * d[1] \in Rows
                  /\ rc[2] + i * d[2] \in Cols
                  /\ b[rc[1] + i * d[1]][rc[2] + i * d[2]] = b[rc[1]][rc[2]]}

\* the position of a cell in row-major order
RowMajor(rc) == rc[1] * NUM_COLS + rc[2]

\* the piece that owns the first start cell of b in row-major order
FirstStartPiece(b) ==
    LET first == CHOOSE rc \in StartCells(b) :
                     \A other \in StartCells(b) : RowMajor(rc) <= RowMajor(other)
    IN b[first[1]][first[2]]

\* C19. When both pieces have a 4-in-a-row on the same board getResult returns
\* the win of the piece that owns the first cell, in row-major order, that
\* starts a complete 4-cell window of its own piece in one of the four
\* directions.
C19_FirstStartWins ==
    (last.op = "getResult" /\ HasFour(board, Red) /\ HasFour(board, Yellow)) =>
        last.result = (IF FirstStartPiece(board) = player1Piece THEN P1Wins ELSE P2Wins)

\* both pieces hold a line, the first start cell is player 2's and a later one
\* is player 1's, and getResult reported the win of player 2
C19_Witness ==
    /\ last.op = "getResult"
    /\ HasFour(board, Red) /\ HasFour(board, Yellow)
    /\ FirstStartPiece(board) = player2Piece
    /\ \E rc \in StartCells(board) : board[rc[1]][rc[2]] = player1Piece
    /\ last.result = P2Wins

\* the Result a result string of either engine stands for: InProgress,
\* Win(piece) or Draw
ResultOf(r) ==
    CASE r \in {P1Wins, P1Win} -> <<"Win", player1Piece>>
      [] r \in {P2Wins, P2Win} -> <<"Win", player2Piece>>
      [] r = Draw -> <<"Draw">>
      [] r = Null -> <<"InProgress">>

\* the run test of game.ts and the window test of the final engine give the
\* same answer for `piece` at (row, col) in each of the four directions
WinTestsAgreeAt(b, piece, row, col) ==
    /\ hasWonHorizontally(b, piece, row, col)
          = (numMatchingCellsHorizontally(b, piece, row, col) = 4)
    /\ hasWonDiagonallyUp(b, piece, row, col)
          = (numMatchingCellsDiagonallyUp(b, piece, row, col) = 4)
    /\ hasWonDiagonallyDown(b, piece, row, col)
          = (numMatchingCellsDiagonallyDown(b, piece, row, col) = 4)
    /\ hasWonVertically(b, piece, row, col)
          = (numMatchingCellsVertically(b, piece, row, col) = 4)
    /\ hasPlayerWonAtCellBasic(b, piece, row, col) = hasPlayerWonAtCell(b, piece, row, col)

\* C31. The two win tests agree: for every board, cell, piece and direction,
\* the consecutive-run test of game.ts (count matching cells from the start
\* cell, stop at the first mismatch, cap at 4, true iff the count is 4) gives
\* the same answer as the window-count test of the final engine (the count of
\* matching cells in the edge-clipped 4-cell window equals 4), so getResult of
\* game.ts and getResult of the final engine return the same Result (the
\* strings 'P1_Win' and 'P1 Wins!' both standing for the win of player 1) on
\* every board.
C31_WinTestsAgree ==
    (last.op = "getResult") =>
        /\ \A row \in Rows, col \in Cols, piece \in Pieces :
              WinTestsAgreeAt(board, piece, row, col)
        /\ ResultOf(last.basic) = ResultOf(last.result)

\* both engines judged a board won by player 1 on which a run stops short of
\* the matching cells of its window: one matching cell, a mismatch, then two
\* more matching cells in the same row
C31_Witness ==
    /\ last.op = "getResult"
    /\ last.basic = P1Win
    /\ last.result = P1Wins
    /\ \E row \in Rows, col \in Cols, piece \in Pieces :
          /\ numConsecutiveMatchingPieces(board, piece, row, col, 0, 1, 0) = 1
          /\ numMatchingCellsHorizontally(board, piece, row, col) = 3

\* C32. In every engine variant whose getResult takes a board argument,
\* getResult(b) is a function of the argument b alone: a game whose live board
\* is b itself and a game with the empty live board return for b what this
\* game returns, so the terminal test inside the search reflects the
\* hypothetical board and not the live game board.
C32_ResultOfArgumentAlone ==
    (last.op = "terminalTest") =>
        /\ \A thisBoard \in {last.arg, EmptyBoard} :
              getResultIn(variant, thisBoard, last.arg) = last.result
        /\ (last.result # Null) = (HasFour(last.arg, Red) \/ HasFour(last.arg, Yellow)
                                      \/ ~HasEmptyCell(last.arg))

-----------------------------------------------------------------------------
(* Properties of the position evaluator *)

CenterCount(b, piece) ==
    Cardinality({row \in Rows : b[row][NUM_COLS \div 2] = piece})

\* C4 as stated. Evaluator symmetry: on every board where neither piece has a
\* 4-in-a-row, evaluateBoard(b, A, B) = -evaluateBoard(b, B, A).
C4_Symmetry ==
    (last.op = "evaluateBoard" /\ ~HasFour(board, Red) /\ ~HasFour(board, Yellow)) =>
        last.score[Red] = -last.score[Yellow]

\* C4 amended. On every board where neither piece has a 4-in-a-row the two
\* scores are opposite once each is taken without its own center-column bonus
\* of 3 per piece: evaluateBoard(b, A, B) - 3 * (A pieces in the center column)
\* = -(evaluateBoard(b, B, A) - 3 * (B pieces in the center column)).
C4_SymmetryApartFromCenter ==
    (last.op = "evaluateBoard" /\ ~HasFour(board, Red) /\ ~HasFour(board, Yellow)) =>
        last.score[Red] - 3 * CenterCount(board, Red)
            = -(last.score[Yellow] - 3 * CenterCount(board, Yellow))

\* a board without a line, with pieces of both colours in the center column
\* and a window score that is not zero, was evaluated for both pieces
C4_Witness ==
    /\ last.op = "evaluateBoard"
    /\ ~HasFour(board, Red) /\ ~HasFour(board, Yellow)
    /\ CenterCount(board, Red) > 0 /\ CenterCount(board, Yellow) > 0
    /\ last.score[Red] - 3 * CenterCount(board, Red) # 0

\* the cells of the window that starts at (row, col) and runs in direction d
\* which lie on the board, as offsets 0 .. 3 from the start
WindowOffsets(row, col, d) ==
    {i \in 0 .. 3 : row + i * d[1] \in Rows /\ col + i * d[2] \in Cols}

\* how many cells of that window hold `cell`
WindowCount(b, row, col, d, cell) ==
    Cardinality({i \in WindowOffsets(row, col, d) : b[row + i * d[1]][col + i * d[2]] = cell})

\* the score of a complete window for a piece with `own` cells in it
PatternScore(own, empty) ==
    IF own = 4 THEN 1000000
    ELSE IF own = 3 /\ empty = 1 THEN 5
    ELSE IF own = 2 /\ empty = 2 THEN 2
    ELSE 0

\* what the window contributes: nothing when the edge clips it
WindowScore(b, forPiece, againstPiece, row, col, d) ==
    IF Cardinality(WindowOffsets(row, col, d)) < 4 THEN 0
    ELSE PatternScore(WindowCount(b, row, col, d, forPiece), WindowCount(b, row, col, d, Null))
         - PatternScore(WindowCount(b, row, col, d, againstPiece),
                        WindowCount(b, row, col, d, Null))

\* the evaluator of the direction d
evaluateInDirection(b, forPiece, againstPiece, row, col, d) ==
    CASE d = <<0, 1>> -> evaluateHorizontally(b, forPiece, againstPiece, row, col)
      [] d = <<-1, 1>> -> evaluateDiagonallyUp(b, forPiece, againstPiece, row, col)
      [] d = <<1, 1>> -> evaluateDiagonallyDown(b, forPiece, againstPiece, row, col)
      [] d = <<1, 0>> -> evaluateVertically(b, forPiece, againstPiece, row, col)

\* the sum of WindowScore over the four windows of every cell
WindowTotal(b, forPiece, againstPiece) ==
    LET cellScore(row, col) ==
            WindowScore(b, forPiece, againstPiece, row, col, <<0, 1>>)
            + WindowScore(b, forPiece, againstPiece, row, col, <<-1, 1>>)
            + WindowScore(b, forPiece, againstPiece, row, col, <<1, 1>>)
            + WindowScore(b, forPiece, againstPiece, row, col, <<1, 0>>)
        total[i \in 0 .. NUM_ROWS * NUM_COLS] ==
            IF i = 0 THEN 0
            ELSE total[i - 1] + cellScore((i - 1) \div NUM_COLS, (i - 1) % NUM_COLS)
    IN total[NUM_ROWS * NUM_COLS]

\* a window the edge clips
ClippedWindows == {w \in Rows \X Cols \X Directions : Cardinality(WindowOffsets(w[1], w[2], w[3])) < 4}

\* C23. In evaluateBoard a window that the board edge clips to fewer than 4
\* cells contributes 0 in every direction, whatever its cells hold; only
\* complete 4-cell windows add or subtract score (4 own: +1,000,000; 3 own and
\* 1 empty: +5; 2 own and 2 empty: +2; the same for the opponent with the
\* negative sign; any other content: 0).
C23_ClippedWindowsScoreZero ==
    (last.op = "evaluateBoard") =>
        \A p \in Pieces :
            /\ \A row \in Rows, col \in Cols, d \in Directions :
                  evaluateInDirection(board, p, OtherPiece(p), row, col, d)
                      = WindowScore(board, p, OtherPiece(p), row, col, d)
            /\ last.score[p] = 3 * CenterCount(board, p)
                                  + WindowTotal(board, p, OtherPiece(p))

\* a board was evaluated on which a clipped window holds three pieces of one
\* colour and another clipped window two of them with an empty cell
C23_Witness ==
    /\ last.op = "evaluateBoard"
    /\ \E p \in Pieces :
          /\ \E w \in ClippedWindows : WindowCount(board, w[1], w[2], w[3], p) = 3
          /\ \E w \in ClippedWindows :
                /\ WindowCount(board, w[1], w[2], w[3], p) = 2
                /\ WindowCount(board, w[1], w[2], w[3], Null) = 1
          /\ last.score[p] = 3 * CenterCount(board, p) + WindowTotal(board, p, OtherPiece(p))

\* the windows of 4 cells that lie on the board
CompleteWindows == (Rows \X Cols \X Directions) \ ClippedWindows

\* how many complete windows hold four cells of `piece`
FoursOf(b, piece) ==
    Cardinality({w \in CompleteWindows : WindowCount(b, w[1], w[2], w[3], piece) = 4})

\* the greatest size of the part of the score that is not a win term
HeuristicBound == 5 * Cardinality(CompleteWindows) + 3 * NUM_ROWS

\* C28. Win terms dominate the heuristic: for every board,
\* evaluateBoard(b, A, B) = 1,000,000 * (number of complete 4-cell windows
\* holding four A pieces minus number holding four B pieces) + h with
\* |h| <= 363 (69 complete windows times 5, plus a center bonus of at most 18);
\* hence a board where A has a 4-in-a-row and B has none evaluates strictly
\* positive for A and strictly negative for B.
C28_WinTermsDominate ==
    /\ Cardinality(CompleteWindows) = 69
    /\ HeuristicBound = 363
    /\ (last.op = "evaluateBoard") =>
          \A p \in Pieces :
              LET h == last.score[p]
                          - 1000000 * (FoursOf(board, p) - FoursOf(board, OtherPiece(p)))
              IN /\ h >= -HeuristicBound
                 /\ h <= HeuristicBound
                 /\ (FoursOf(board, p) >= 1 /\ FoursOf(board, OtherPiece(p)) = 0)
                        => (last.score[p] > 0 /\ last.score[OtherPiece(p)] < 0)

\* a board was evaluated on which one piece holds a 4-in-a-row and the other
\* none, and the rest of the score is not zero
C28_Witness ==
    /\ last.op = "evaluateBoard"
    /\ \E p \in Pieces :
          /\ FoursOf(board, p) >= 1
          /\ FoursOf(board, OtherPiece(p)) = 0
          /\ last.score[p] > 1000000 * FoursOf(board, p)
          /\ last.score[OtherPiece(p)] < 0
          /\ last.score[OtherPiece(p)] # -1000000 * FoursOf(board, p)

\* the occupied cells of the centre column
CenterOccupied(b) == Cardinality({row \in Rows : b[row][CenterCol] # Null})

\* C29. The center-column bonus is credited to forPiece only and is not
\* subtracted for againstPiece: for every board, evaluateBoard(b, A, B) +
\* evaluateBoard(b, B, A) = 3 * (number of occupied cells in column 3).
C29_CenterBonusOneSided ==
    (last.op = "evaluateBoard") =>
        /\ last.score[Red] + last.score[Yellow] = 3 * CenterOccupied(board)
        /\ \A p \in Pieces :
              last.score[p] - WindowTotal(board, p, OtherPiece(p)) = 3 * CenterCount(board, p)

\* a board was evaluated whose centre column holds pieces of both colours,
\* in different numbers, and whose windows score for one side
C29_Witness ==
    /\ last.op = "evaluateBoard"
    /\ CenterCount(board, Red) >= 1
    /\ CenterCount(board, Yellow) >= 1
    /\ CenterCount(board, Red) # CenterCount(board, Yellow)
    /\ WindowTotal(board, Red, Yellow) # 0
    /\ last.score[Red] + last.score[Yellow] = 3 * CenterOccupied(board)

-----------------------------------------------------------------------------
(* Properties of the search engine *)

\* C3. minimax and minimaxWithAlphaBetaPruning, called at the root with the
\* same board, depth and piece assignment (alpha = -infinity, beta =
\* +infinity, maximizing), return the same value and the same column.
C3_AlphaBetaEquivalence ==
    (last.op = "search") =>
        /\ last.alphaBeta.value = last.minimax.value
        /\ last.alphaBeta.col = last.minimax.col

\* the alpha-beta search of depth 2 on board b for `piece` takes a break: an
\* earlier child c1 of the root has the value v1, and the first grandchild g1
\* under a later child c2 is worth no more than v1 while another grandchild g2
\* is still to come
TakesBreak(b, piece) ==
    \E c1 \in Cols, c2 \in Cols :
        /\ c1 < c2
        /\ canPlayAtColumn(b, c1)
        /\ canPlayAtColumn(b, c2)
        /\ getResult(placePiece(b, c2, piece)) = Null
        /\ \E g1 \in Cols, g2 \in Cols :
              /\ g1 < g2
              /\ canPlayAtColumn(placePiece(b, c2, piece), g1)
              /\ canPlayAtColumn(placePiece(b, c2, piece), g2)
              /\ \A g \in Cols : g < g1 => ~canPlayAtColumn(placePiece(b, c2, piece), g)
              /\ evaluateBoard(placePiece(placePiece(b, c2, piece), g1, OtherPiece(piece)),
                               piece, OtherPiece(piece))
                    <= minimax(<<placePiece(b, c1, piece)>>, 1, 1, FALSE,
                               pieceMapOf(piece), c1).value

\* both searches of depth 2 ran on an in-progress board, the alpha-beta search
\* took a break, and they returned the same column of the board
C3_Witness ==
    /\ last.op = "search"
    /\ last.depth = 2
    /\ getResult(last.before) = Null
    /\ last.minimax.col \in Cols
    /\ last.alphaBeta = last.minimax
    /\ TakesBreak(last.before, last.piece)

\* C8. A call of minimax or minimaxWithAlphaBetaPruning, at any depth and on any
\* board, leaves the board passed to it unchanged cell for cell: the live board
\* after the call equals the live board before the call.
C8_SearchLeavesBoard ==
    (last.op = "search") => board = last.before

\* searches of depth 2 or more placed pieces on copies of an in-progress board
\* and returned a column, and the live board is what it was
C8_Witness ==
    /\ last.op = "search"
    /\ last.depth >= 2
    /\ getResult(last.before) = Null
    /\ last.minimax.col \in Cols
    /\ Occupied(last.before) > Occupied(LateBoard)
    /\ board = last.before

\* placing `piece` in column col of board b completes a 4-in-a-row for it
CompletesFour(b, col, piece) ==
    /\ canPlayAtColumn(b, col)
    /\ HasFour(placePiece(b, col, piece), piece)

\* column 3 is the only column whose placement completes a 4-in-a-row for piece
OnlyThreeCompletes(b, piece) ==
    /\ CompletesFour(b, 3, piece)
    /\ \A col \in Cols \ {3} : ~CompletesFour(b, col, piece)

\* C9 amended. With search depth 1, on every in-progress board where column 3
\* is the only column whose placement completes a 4-in-a-row for the searching
\* piece, minimax returns column 3.
C9_PicksOnlyWinningColumn ==
    (/\ last.op = "search"
     /\ last.depth = 1
     /\ getResult(last.before) = Null
     /\ OnlyThreeCompletes(last.before, last.piece))
        => last.minimax.col = 3

\* a depth-1 search on a board where column 3 alone wins and another column
\* could be played returned column 3
C9_Witness ==
    /\ last.op = "search"
    /\ last.depth = 1
    /\ getResult(last.before) = Null
    /\ OnlyThreeCompletes(last.before, last.piece)
    /\ \E col \in Cols \ {3} : canPlayAtColumn(last.before, col)
    /\ last.minimax.col = 3

\* C9 as stated. With search depth 1, on every in-progress board where placing
\* the searching piece in column 3 completes a 4-in-a-row for that piece,
\* minimax returns column 3.
C9_PicksColumnThree ==
    (/\ last.op = "search"
     /\ last.depth = 1
     /\ getResult(last.before) = Null
     /\ CompletesFour(last.before, 3, last.piece))
        => last.minimax.col = 3

\* C14. At the outermost search call on an in-progress board with depth >= 1
\* both minimax and minimaxWithAlphaBetaPruning return a column of the board
\* that can be played on it (never -1, never a full column).
C14_SearchReturnsPlayable ==
    (last.op = "search" /\ last.depth >= 1 /\ getResult(last.before) = Null) =>
        {last.minimax.col, last.alphaBeta.col} \subseteq PlayableCols(last.before)

\* both searches ran on an in-progress board with a single column left to play
\* and returned that column
C14_Witness ==
    /\ last.op = "search"
    /\ last.depth >= 1
    /\ getResult(last.before) = Null
    /\ Cardinality(PlayableCols(last.before)) = 1
    /\ PlayableCols(last.before) = {last.minimax.col}
    /\ last.alphaBeta.col = last.minimax.col

\* the scores evaluateBoard gives, for `piece`, to the boards where a search of
\* the given depth from b stops, `mover` being the piece placed next
RECURSIVE LeafValues(_, _, _, _)
LeafValues(b, depth, mover, piece) ==
    IF depth = 0 \/ getResult(b) # Null
    THEN {evaluateBoard(b, piece, OtherPiece(piece))}
    ELSE UNION {LeafValues(placePiece(b, col, mover), depth - 1, OtherPiece(mover), piece) :
                    col \in PlayableCols(b)}

\* C15. For every board and depth minimax and minimaxWithAlphaBetaPruning return
\* a value that is evaluateBoard of some board of the search, never the
\* initial MIN_SAFE_INTEGER or MAX_SAFE_INTEGER; a search of depth >= 1 on a
\* board with no column to play returns evaluateBoard of that board.
C15_SearchReturnsEvaluation ==
    (last.op = "search") =>
        /\ {last.minimax.value, last.alphaBeta.value}
              \subseteq (LeafValues(last.before, last.depth, last.piece, last.piece)
                          \ {MIN_SAFE_INTEGER, MAX_SAFE_INTEGER})
        /\ (PlayableCols(last.before) = {}) =>
              {last.minimax.value, last.alphaBeta.value}
                  = {evaluateBoard(last.before, last.piece, OtherPiece(last.piece))}

\* both searches ran with depth >= 1 on a full board and returned its score
\* with the column they were given
C15_Witness ==
    /\ last.op = "search"
    /\ last.depth >= 1
    /\ PlayableCols(last.before) = {}
    /\ ~HasEmptyCell(last.before)
    /\ last.minimax.col = -1
    /\ last.minimax.value = evaluateBoard(last.before, last.piece, OtherPiece(last.piece))
    /\ last.alphaBeta = last.minimax

\* C21. At a terminal search node (depth = 0, or getResult of the board is not
\* null) minimax and minimaxWithAlphaBetaPruning return value =
\* evaluateBoard(board, maximizing piece, minimizing piece), whichever side is
\* to move at the node, and the column passed in by the parent, which is -1
\* when the terminal node is the root.
C21_TerminalNode ==
    /\ (last.op = "search" /\ (last.depth = 0 \/ getResult(last.before) # Null)) =>
          /\ last.minimax = [col |-> -1,
                             value |-> evaluateBoard(last.before, last.piece,
                                                     OtherPiece(last.piece))]
          /\ last.alphaBeta = last.minimax
    /\ (last.op = "node" /\ (last.depth = 0 \/ getResult(last.before) # Null)) =>
          /\ last.minimax = [col |-> last.col,
                             value |-> evaluateBoard(last.before, last.piece,
                                                     OtherPiece(last.piece))]
          /\ last.alphaBeta = last.minimax

\* a node where the minimizing piece is to move was called with depth >= 1 and
\* a column of the board on a won board whose two scores are not opposite, and
\* returned that column with the score of the maximizing piece
C21_Witness ==
    /\ last.op = "node"
    /\ last.depth >= 1
    /\ last.col \in Cols
    /\ getResult(last.before) \in {P1Wins, P2Wins}
    /\ last.minimax.col = last.col
    /\ last.minimax.value = evaluateBoard(last.before, last.piece, OtherPiece(last.piece))
    /\ last.minimax.value # evaluateBoard(last.before, OtherPiece(last.piece), last.piece)
    /\ last.alphaBeta = last.minimax

\* the greatest and the least element of a set of numbers that is not empty
SetMax(S) == CHOOSE x \in S : \A y \in S : y <= x
SetMin(S) == CHOOSE x \in S : \A y \in S : x <= y

\* the game-tree value of board b for `piece`: the score of b at a terminal
\* node, else the greatest (maximizing) or least (minimizing) value of the
\* boards one move away
RECURSIVE TreeValue(_, _, _, _)
TreeValue(b, depth, isMaximizingPlayer, piece) ==
    IF depth = 0 \/ getResult(b) # Null
    THEN evaluateBoard(b, piece, OtherPiece(piece))
    ELSE LET mover == IF isMaximizingPlayer THEN piece ELSE OtherPiece(piece)
             values == {TreeValue(placePiece(b, col, mover), depth - 1,
                                  ~isMaximizingPlayer, piece) : col \in PlayableCols(b)}
         IN IF isMaximizingPlayer THEN SetMax(values) ELSE SetMin(values)

\* the value of the child of b in column col
ChildValue(b, depth, isMaximizingPlayer, piece, col) ==
    TreeValue(placePiece(b, col, IF isMaximizingPlayer THEN piece ELSE OtherPiece(piece)),
              depth - 1, ~isMaximizingPlayer, piece)

\* the playable columns of b whose child has the value `best`
ColsOfValue(b, depth, isMaximizingPlayer, piece, best) ==
    {col \in PlayableCols(b) : ChildValue(b, depth, isMaximizingPlayer, piece, col) = best}

\* the playable columns of b whose child has the best value of the node
BestCols(b, depth, isMaximizingPlayer, piece) ==
    ColsOfValue(b, depth, isMaximizingPlayer, piece,
                TreeValue(b, depth, isMaximizingPlayer, piece))

\* the playable columns of b, each with the value of its child
ChildValues(b, depth, isMaximizingPlayer, piece) ==
    {<<col, ChildValue(b, depth, isMaximizingPlayer, piece, col)>> : col \in PlayableCols(b)}

\* the lowest of the columns of `children` that have the value `best`, and
\* that value
FirstOfValue(children, best) ==
    [col |-> SetMin({child[1] : child \in {c \in children : c[2] = best}}),
     value |-> best]

\* the lowest column of the greatest (maximizing) or least (minimizing) value
\* among `children`, and that value
FirstOfChildren(children, isMaximizingPlayer) ==
    FirstOfValue(children,
                 IF isMaximizingPlayer THEN SetMax({child[2] : child \in children})
                 ELSE SetMin({child[2] : child \in children}))

\* the lowest column of BestCols and the best value
FirstBest(b, depth, isMaximizingPlayer, piece) ==
    FirstOfChildren(ChildValues(b, depth, isMaximizingPlayer, piece), isMaximizingPlayer)

\* C22. First-wins tie rule: at a maximizing node minimax returns the
\* lowest-index playable column among those whose child value equals the
\* maximum child value, and at a minimizing node the lowest-index playable
\* column among those whose child value equals the minimum; the result is
\* determined by (board, depth, pieceMap).
C22_FirstWinsTie ==
    /\ (last.op = "search" /\ last.depth >= 1 /\ getResult(last.before) = Null) =>
          last.minimax = FirstBest(last.before, last.depth, TRUE, last.piece)
    /\ (last.op = "node" /\ last.depth >= 1 /\ getResult(last.before) = Null) =>
          last.minimax = FirstBest(last.before, last.depth, FALSE, last.piece)

\* a minimizing node of depth >= 1 with two columns of the least child value,
\* a value that is not zero, returned the lower of the two
C22_Witness ==
    /\ last.op = "node"
    /\ last.depth >= 1
    /\ getResult(last.before) = Null
    /\ Cardinality(BestCols(last.before, last.depth, FALSE, last.piece)) >= 2
    /\ last.minimax.col = SetMin(BestCols(last.before, last.depth, FALSE, last.piece))
    /\ last.minimax.value # 0

\* the columns whose placement completes a 4-in-a-row for piece on board b
WinningCols(b, piece) == {col \in Cols : CompletesFour(b, col, piece)}

\* C26 as stated. For every search depth >= 1 and every in-progress board on
\* which the searching piece has at least one column that completes a
\* 4-in-a-row immediately, the column returned by minimax and by alpha-beta
\* completes a 4-in-a-row for the searching piece on this move.
C26_TakesImmediateWin ==
    (/\ last.op = "search"
     /\ last.depth >= 1
     /\ getResult(last.before) = Null
     /\ WinningCols(last.before, last.piece) # {})
        => {last.minimax.col, last.alphaBeta.col} \subseteq WinningCols(last.before, last.piece)

\* C26 amended. For the search depths 1 .. MAX_DEPTH and every in-progress
\* board on which the searching piece has at least one column that completes
\* a 4-in-a-row immediately, the column returned by minimax and by alpha-beta
\* completes a 4-in-a-row for the searching piece on this move.  (One ply
\* deeper a later win that scores at least as much can be preferred.)
C26_TakesImmediateWinToMaxDepth ==
    (/\ last.op = "search"
     /\ last.depth \in 1 .. MAX_DEPTH
     /\ getResult(last.before) = Null
     /\ WinningCols(last.before, last.piece) # {})
        => {last.minimax.col, last.alphaBeta.col} \subseteq WinningCols(last.before, last.piece)

\* a search of depth MAX_DEPTH that had a winning and a non-winning column to
\* choose from and returned the winning one
C26_Witness ==
    /\ last.op = "search"
    /\ last.depth = MAX_DEPTH
    /\ getResult(last.before) = Null
    /\ WinningCols(last.before, last.piece) # {}
    /\ PlayableCols(last.before) \ WinningCols(last.before, last.piece) # {}
    /\ last.minimax.col \in WinningCols(last.before, last.piece)
    /\ last.alphaBeta.col \in WinningCols(last.before, last.piece)

\* the playable columns after which the opponent of piece has no column that
\* completes a 4-in-a-row on its next move
SafeCols(b, piece) ==
    {col \in PlayableCols(b) :
        WinningCols(placePiece(b, col, piece), OtherPiece(piece)) = {}}

\* C27. With search depth MAX_DEPTH = 2, on every in-progress board where the
\* searching piece has no immediately winning column: if some playable column
\* leaves the opponent without an immediately winning reply, minimax and
\* alpha-beta return such a column.
C27_AvoidsImmediateLoss ==
    (/\ last.op = "search"
     /\ last.depth = MAX_DEPTH
     /\ getResult(last.before) = Null
     /\ WinningCols(last.before, last.piece) = {}
     /\ SafeCols(last.before, last.piece) # {})
        => {last.minimax.col, last.alphaBeta.col} \subseteq SafeCols(last.before, last.piece)

\* a search of depth MAX_DEPTH without a winning column, with a column that
\* hands the opponent a win and a column that does not, which returned the
\* latter
C27_Witness ==
    /\ last.op = "search"
    /\ last.depth = MAX_DEPTH
    /\ getResult(last.before) = Null
    /\ WinningCols(last.before, last.piece) = {}
    /\ SafeCols(last.before, last.piece) # {}
    /\ PlayableCols(last.before) \ SafeCols(last.before, last.piece) # {}
    /\ last.minimax.col \in SafeCols(last.before, last.piece)
    /\ last.alphaBeta.col \in SafeCols(last.before, last.piece)

\* the cells that are empty on root and occupied on b
AddedCells(b, root) == {cell \in Rows \X Cols : root[cell[1]][cell[2]] = Null /\ b[cell[1]][cell[2]] # Null}

\* b holds every piece of root where root holds it
Extends(b, root) ==
    \A row \in Rows, col \in Cols : root[row][col] # Null => b[row][col] = root[row][col]

\* how many of the added cells hold `piece`
AddedOf(b, root, piece) ==
    Cardinality({cell \in AddedCells(b, root) : b[cell[1]][cell[2]] = piece})

\* b is parent with one piece `piece` placed in a playable column
IsChildOf(b, parent, piece) ==
    \E col \in PlayableCols(parent) : b = placePiece(parent, col, piece)

\* the boards below b in the tree of alternating moves that stops at depth 0
\* and at every board with a result
RECURSIVE TreeBoards(_, _, _, _)
TreeBoards(b, depth, isMaximizingPlayer, piece) ==
    IF depth = 0 \/ getResult(b) # Null THEN {}
    ELSE UNION {{placePiece(b, col, IF isMaximizingPlayer THEN piece ELSE OtherPiece(piece))}
                    \cup TreeBoards(placePiece(b, col, IF isMaximizingPlayer THEN piece
                                                       ELSE OtherPiece(piece)),
                                    depth - 1, ~isMaximizingPlayer, piece) :
                col \in PlayableCols(b)}

\* the number of nodes of that tree below b
RECURSIVE TreeSize(_, _, _, _)
TreeSize(b, depth, isMaximizingPlayer, piece) ==
    IF depth = 0 \/ getResult(b) # Null THEN 0
    ELSE LET child(col) == placePiece(b, col, IF isMaximizingPlayer THEN piece
                                                ELSE OtherPiece(piece))
             below[col \in 0 .. NUM_COLS] ==
                 IF col = NUM_COLS THEN 0
                 ELSE below[col + 1]
                      + (IF canPlayAtColumn(b, col)
                         THEN 1 + TreeSize(child(col), depth - 1, ~isMaximizingPlayer, piece)
                         ELSE 0)
         IN below[0]

\* C30. Sides alternate inside the search tree: every board explored k plies
\* below the root of a search started with maximizing = true differs from the
\* root board by exactly k added pieces, the 1st, 3rd, ... being the
\* maximizing piece and the 2nd, 4th, ... the minimizing piece, and a node
\* whose result is a Win or a Draw is never expanded (it has no children).
\* Every board the search makes is one in-progress earlier board plus one
\* piece of the side its ply gives, and the boards made are exactly the nodes
\* of the tree that stops at results, each made once.
C30_SidesAlternate ==
    (last.op = "explore") =>
        /\ last.boards[1] = last.before
        /\ \A i \in 2 .. Len(last.boards) :
              LET b == last.boards[i]
                  k == Cardinality(AddedCells(b, last.before))
              IN /\ Extends(b, last.before)
                 /\ k \in 1 .. last.depth
                 /\ AddedOf(b, last.before, last.piece) = (k + 1) \div 2
                 /\ AddedOf(b, last.before, OtherPiece(last.piece)) = k \div 2
                 /\ \E j \in 1 .. i - 1 :
                       /\ getResult(last.boards[j]) = Null
                       /\ Cardinality(AddedCells(last.boards[j], last.before)) = k - 1
                       /\ IsChildOf(b, last.boards[j],
                                    IF k % 2 = 1 THEN last.piece ELSE OtherPiece(last.piece))
        /\ {last.boards[i] : i \in 2 .. Len(last.boards)}
              = TreeBoards(last.before, last.depth, TRUE, last.piece)
        /\ Len(last.boards) = 1 + TreeSize(last.before, last.depth, TRUE, last.piece)

\* a search of three plies from an in-progress board that reached a board
\* three pieces below the root and met a finished board above the leaves
C30_Witness ==
    /\ last.op = "explore"
    /\ last.depth = DeepDepth
    /\ getResult(last.before) = Null
    /\ \E i \in 2 .. Len(last.boards) :
          /\ Cardinality(AddedCells(last.boards[i], last.before)) = 3
          /\ AddedOf(last.boards[i], last.before, last.piece) = 2
    /\ \E i \in 2 .. Len(last.boards) :
          /\ Cardinality(AddedCells(last.boards[i], last.before)) < last.depth
          /\ getResult(last.boards[i]) # Null
          /\ \A j \in 2 .. Len(last.boards) :
                ~IsChildOf(last.boards[j], last.boards[i], OtherPiece(last.piece))

-----------------------------------------------------------------------------
(* Properties of the turn loop *)

\* C10. In the turn loop a chosen column that is full is retried: the turn
\* passes to the other player only after exactly one piece of the moving
\* player has been placed.  Stated for the turns whose chosen column is a
\* column of the board.
C10_TurnPassesAfterPlacing ==
    [][(turn' # turn /\ last.op = "move" /\ last.col \in Cols) => last.landed]_vars

\* C12. Turns alternate strictly: the first move is asked of player 1, and
\* after every turn of the loop the player to move is the other one, whatever
\* column was chosen; no player is asked for a move twice in a row.
C12_TurnsAlternate ==
    [][/\ (last'.op \in {"ask", "line", "column"}) =>
             /\ last'.turn = turn
             /\ (last.op = "init") => (turn = "P1")
             /\ (last.op = "turn") => (last.from # turn)
       /\ (last'.op = "move") => (last'.turn = turn /\ turn' = turn)
       /\ (last'.op = "turn") => (last'.from = turn /\ turn' \in Turns \ {turn})]_vars

\* a turn that placed nothing has ended and the other player is to move
C12_Witness ==
    /\ last.op = "turn"
    /\ pc = "loop"
    /\ Occupied(board) > 0
    /\ \E t \in Turns :
          /\ last.from = t
          /\ turn # t
          /\ ~last.landed

\* C13. The turn loop asks for and applies a move only while getResult of the
\* live board is null: once the board is won or drawn no piece is placed on
\* it, and the result reported when the loop ends is getResult of the final
\* board.
C13_MovesOnlyInProgress ==
    [][/\ (last'.op \in {"ask", "line", "column", "move"} \/ board' # board)
             => (getResultOf(variant, board) = Null)
       /\ (pc' = "done") => (result' # Null /\ result' = getResultOf(variant, board'))]_vars

\* the loop has ended on a won board that still has empty cells
C13_Witness ==
    /\ pc = "done"
    /\ result \in {P1Wins, P2Wins, P1Win, P2Win}
    /\ result = getResultOf(variant, board)
    /\ HasEmptyCell(board)

\* C17. In the turn loop placePiece is only called with a column of the board:
\* a line that is not a number, or a number outside the board, never reaches
\* placePiece and never uses up the player's turn.
C17_PlaceGetsBoardColumn ==
    (last.op = "move") => (last.col \in Cols)

\* C20. In every state the turn loop reaches from the empty board, with the
\* players alternating and any column choices, at most one of the two pieces
\* has a 4-in-a-row on the live board.
C20_AtMostOneFour == ~(HasFour(board, Red) /\ HasFour(board, Yellow))

\* a move of the loop has just completed a line of one piece, the other piece
\* having three of its own in a column
C20_Witness ==
    /\ last.op = "move" /\ last.landed
    /\ \E piece \in Pieces :
          /\ HasFour(board, piece) /\ ~HasFour(board, OtherPiece(piece))
          /\ PieceCount(board, OtherPiece(piece)) >= 3

\* C24. With a random-move player the move selection returns a column
\* whenever at least one column of the board is playable: there is no
\* reachable in-progress board on which the random selector redraws forever,
\* so a game with a random player always reaches a win or a draw.
C24_RandomSelectorReturns ==
    (/\ pc = "loop"
     /\ modes[turn] = "random"
     /\ getResultOf(variant, board) = Null
     /\ PlayableCols(board) # {})
        => getColumnForRandomAIMove(board) # {}

\* C25. A game in which both players select their moves with the search
\* (minimax or alpha-beta, depth >= 1) terminates: every turn of the loop adds
\* exactly one piece, of the player that moves, to the live board, so there
\* are at most NUM_ROWS * NUM_COLS = 42 moves, and the loop exits with a win
\* or a draw.
C25_SmartGameTerminates ==
    /\ [][(last'.op = "move") =>
             /\ PieceCount(board', pieceOfTurn(turn)) = PieceCount(board, pieceOfTurn(turn)) + 1
             /\ Occupied(board') = Occupied(board) + 1]_vars
    /\ <>(pc = "done" /\ result \in {P1Wins, P2Wins, Draw})

\* a game of a minimax player and an alpha-beta player has ended after more
\* than seven moves with the result of its final board
C25_Witness ==
    /\ pc = "done"
    /\ modes["P1"] = "minimax" /\ modes["P2"] = "minimax_alpha_beta"
    /\ Occupied(board) > 7
    /\ result \in {P1Wins, P2Wins, Draw}
    /\ result = getResult(board)

-----------------------------------------------------------------------------
(* Properties of the move selectors *)

\* C11. The random move selector returns column c if and only if c is playable:
\* on every board with a playable column the columns it can return are the
\* columns with canPlayAtColumn true, a column whose only empty cell is the top
\* row included.
C11_RandomReturnsPlayable ==
    (PlayableCols(board) # {}) => getColumnForRandomAIMove(board) = PlayableCols(board)

====
